---- MODULE Spec2Model ----
(***************************************************************************)
(* Survision device simulator: the device state store (DataStore), the     *)
(* protocol dispatcher (DeviceLogic) and the two transport adapters        *)
(* (SurvisionHTTPHandler, SurvisionWebSocketServer).                       *)
(*                                                                         *)
(* Two threads touch the store: the HTTP server thread (HTTPServer handles *)
(* one request at a time) and the WebSocket event-loop thread (one message *)
(* at a time, process_websocket_message has no await inside).  Every       *)
(* DataStore method is one critical section of DataStore._lock, so a step  *)
(* of the model is one DataStore call; a handler that makes several calls  *)
(* is several steps and the other thread may run between them.             *)
(***************************************************************************)
EXTENDS Integers, Sequences, FiniteSets, TLC

\* ------------------------------------------------------------------ values

None == "None"

Threads == {"http", "ws"}

\* Passwords a client may send (LockMessage.lock.password, the Password header,
\* SecurityConfig.new_lock_password / current_lock_password).
Passwords == {"abc", "xyz"}

\* Plates a client may name in editDatabase.
Plates == {"AB123CD", "ZZ999ZZ"}

\* WebSocket connections (the websocket objects the handler coroutine is run for).
Conns == {"c1", "c2"}

\* Values of lockPasswordHint and rsaHint a client may send.
Hints == {"hint"}

\* Values of @plateReliability a client may send that int() accepts.
Reliabilities == {90}

\* all_plates of generate_recognition_event: the plates it draws from.
all_plates == {"XX 000 XX", "XX 000 XY"}

\* Values random.randint(1, 100) returns in should_recognize_plate.
Draws == 1..100

\* Values of recognitionSuccessRate a configuration file may hold.
SuccessRates == {0, 75, 100}

\* Values of @cameraId a client may send in triggerOn / triggerOff ("0" when absent).
CameraIds == {"0", "1"}

\* ------------------------------------------------------------------ bounds

\* Trigger ids are random.randint(1, 10000); the model draws them from 1..MaxTriggerId.
MaxTriggerId == 2

\* Log appends explored from a freshly constructed store.
MaxAppends == 2

\* Log appends explored from the pre-filled store of InitLog.
MaxLogAppends == 4

\* Length of the log InitLog starts from.
PrefillLen == 98

\* Log appends explored from the store of InitRecognition.
MaxRecognitionAppends == 4

\* ------------------------------------------------------------------ state

VARIABLES
    is_locked,            \* DataStore._is_locked
    barrier_open,         \* DataStore._barrier_open
    allow_set_config,     \* DataStore._allow_set_config
    lock_password,        \* DataStore._lock_password
    lock_password_hint,   \* DataStore._lock_password_hint
    rsa_hint,             \* DataStore._rsa_hint
    plates_database,      \* DataStore._plates_database
    current_recognition,  \* DataStore._current_recognition
    event_log,            \* DataStore._event_log
    ws_clients,           \* DataStore._ws_clients: connection -> StreamConfig
    config,               \* ConfigManager.config
    pc,                   \* per thread: where it is in its request
    msg,                  \* per thread: the decoded message being processed
    answer,               \* per thread: outcome of the last handler run
    error_text,           \* per thread: the parts of the errorText of that outcome
    ws_conn,              \* the connection whose message the WS loop is processing
    password,             \* HTTP: the Password header of the current request
    workers,              \* HTTP: per request worker, where it is in its request
    request_body,         \* HTTP: the request body read, where the receiving step keeps it
    locked,               \* HTTP: local variable `locked` of _handle_sync_request
    status_code,          \* HTTP: status of the last response sent (0: none sent)
    appended,             \* history: every event ever given to _add_event_log
    budget,               \* log appends still explored
    ws_lock_held,         \* history: a WebSocket lock succeeded, no unlock/reboot since
    active_triggers,      \* DeviceLogic.active_triggers: trigger id -> cameraId
    stream_config,        \* DataStore._stream_config
    clients,              \* SurvisionWebSocketServer.clients
    requested,            \* history: per connection, the flags of its last setEnableStreams
    bc,                   \* the broadcast() coroutine: its locals and what it sent
    recognition,          \* per thread: local `recognition` of the log handlers, the anpr answered
    trigger_id,           \* per thread: triggerId of the TriggerAnswer returned
    before,               \* history: per thread, the device state when its message came
                          \* in, where the receiving step records it
    last_on               \* history: camera and id of the triggerOn last answered, if no
                          \* triggerOff followed it, where the handlers record it

logVars == <<event_log, appended, budget>>

securityVars == <<lock_password, lock_password_hint, rsa_hint>>

deviceVars == <<is_locked, barrier_open, allow_set_config, lock_password,
                lock_password_hint, rsa_hint, plates_database,
                current_recognition, event_log, config>>

httpVars == <<password, request_body, locked, status_code>>

threadVars == <<pc, msg, before, answer, error_text, recognition, trigger_id, ws_conn>>

\* State of the WebSocket server object that no message handler touches.
serverVars == <<clients, bc, workers>>

\* State of DeviceLogic, and the histories its handlers keep.
logicVars == <<ws_lock_held, active_triggers, last_on, requested>>

vars == <<is_locked, barrier_open, allow_set_config, lock_password,
          lock_password_hint, rsa_hint, plates_database, current_recognition,
          event_log, ws_clients, config, pc, msg, answer, error_text, ws_conn, password, request_body,
          workers,
          locked, status_code, appended, budget, ws_lock_held, active_triggers,
          stream_config, clients, requested, bc, recognition, trigger_id, before,
          last_on>>

\* ------------------------------------------------------------------ models.py

NoMsg == [op |-> "none"]

\* Shapes of a decoded setConfig payload, by what _handle_set_config does with it:
\*   empty     {} or null: message_data is falsy
\*   nonobject some of config/cameras/camera/anpr is not an object (no .get)
\*   absent    all four objects (or absent), no @plateReliability
\*   numeric   @plateReliability is a numeric string
\*   text      @plateReliability is a string int() rejects
ConfigShapes == {"empty", "nonobject", "absent", "numeric", "text"}

PlainOps == {"getConfig", "getInfos", "openBarrier", "unlock", "resetConfig",
             "resetEngine", "allowSetConfig", "forbidSetConfig",
             "calibrateZoomFocus", "eraseDatabase", "reboot", "keepAlive"}

Messages ==
    [op : PlainOps]
    \cup [op : {"lock"}, password : Passwords]
    \cup [op : {"setConfig"}, shape : ConfigShapes, reliability : Reliabilities]
    \cup [op : {"editDatabase"}, edit : {"addPlate", "delPlate"}, plate : Plates]
    \cup [op : {"setSecurity"},
          new_lock_password : Passwords \cup {None},
          current_lock_password : {"abc", None},
          lock_password_hint : Hints \cup {None},
          rsa_hint : Hints \cup {None}]
    \cup [op : {"update", "setup"}, payload : {"obj"}]

\* StreamConfig as decoded from setEnableStreams (the cameras map is not read).
StreamConfig == [config_changes : BOOLEAN, info_changes : BOOLEAN, traces : BOOLEAN]

\* SetEnableStreamsRequest.
StreamMessages == [op : {"setEnableStreams"}, flags : StreamConfig]

\* TriggerOnMessage and TriggerOffMessage.  `timeout` is the shape of @timeout:
\* a string int() accepts (or absent: "1000"), or one it rejects.
TriggerMessages ==
    [op : {"triggerOn"}, camera_id : CameraIds, timeout : {"numeric", "text"}]
    \cup [op : {"triggerOff"}, camera_id : CameraIds]

\* GetCurrentLogMessage and GetLogMessage.
LogMessages == [op : {"getCurrentLog", "getLog"}]

SecurityMsg(new, cur, hint, rsa) ==
    [op |-> "setSecurity", new_lock_password |-> new, current_lock_password |-> cur,
     lock_password_hint |-> hint, rsa_hint |-> rsa]

\* Subclasses of LockedOperationMessage.
LockedOperationMessage == {"resetConfig", "setConfig", "editDatabase",
                           "allowSetConfig", "forbidSetConfig",
                           "calibrateZoomFocus", "setSecurity",
                           "eraseDatabase", "reboot"}

\* Subclasses of ProhibitedOverHTTPMessage.
ProhibitedOverHTTPMessage == {"lock", "keepAlive", "update", "setup"}

requires_locking(message) == message.op \in LockedOperationMessage

\* Faulty variant: LockMessage not derived from ProhibitedOverHTTPMessage.
is_prohibited_over_http_without_lock(message) ==
    message.op \in ProhibitedOverHTTPMessage \ {"lock"}

is_prohibited_over_http(message) == message.op \in ProhibitedOverHTTPMessage

\* The members of the MessageType union, in its order, each by the JSON key its
\* field is read from.
MessageType ==
    <<"getConfig", "getCurrentLog", "getDatabase", "getDate", "getImage", "getInfos",
      "getLog", "getTraces", "getXSD", "openBarrier", "triggerOn", "triggerOff",
      "lock", "unlock", "resetConfig", "resetEngine", "setConfig", "editDatabase",
      "resetCounters", "allowSetConfig", "forbidSetConfig", "calibrateZoomFocus",
      "setEnableStreams", "keepAlive", "update", "setup", "setSecurity", "testFTP",
      "testNTP", "updateWebFirmware", "eraseDatabase", "reboot">>

\* The keys some member of MessageType reads.
RecognizedKeys == {MessageType[i] : i \in 1..Len(MessageType)}

\* The members whose field has no default.
RequiredField == {"triggerOn", "triggerOff", "lock", "setConfig", "editDatabase",
                  "setEnableStreams", "update", "setup", "setSecurity", "testFTP",
                  "testNTP", "updateWebFirmware"}

\* No request body has been read.
NoBody == [kind |-> "none", keys |-> {}]

\* A body that is a JSON object, by its top-level keys; the value of a key some
\* member reads is one that member accepts (null, {"@password": "abc"} for lock,
\* {} for triggerOn and triggerOff).
JsonObject(keys) == [kind |-> "object", keys |-> keys]

\* A body that is not a JSON object (not JSON, or an array, a string, a number).
NotAnObject == [kind |-> "other", keys |-> {}]

\* pydantic's ValidationError, a ValueError.
ValidationError == [op |-> "ValidationError"]

\* The message a member is built as from the value of its key.
message_of(key) ==
    CASE key = "lock"       -> [op |-> "lock", password |-> "abc"]
      [] key = "triggerOn"  -> [op |-> "triggerOn", camera_id |-> "0", timeout |-> "numeric"]
      [] key = "triggerOff" -> [op |-> "triggerOff", camera_id |-> "0"]
      [] OTHER              -> [op |-> key]

\* The member validates the object: its field is there or has a default; keys
\* it does not read are ignored (no model sets extra="forbid").
validates(member, keys) == member \in RequiredField => member \in keys

\* Fields of the member the object sets.
fields_set_count(member, keys) == IF member \in keys THEN 1 ELSE 0

\* parse_message: MessageTypeModel.validate_json(json_data).  The union is
\* validated in smart mode: every member is tried, the members that validate
\* are compared by the number of fields set, and the leftmost of the best is
\* the result; ValidationError when no member validates.
parse_message(json_data) ==
    IF json_data.kind # "object" THEN ValidationError
    ELSE LET valid == {i \in 1..Len(MessageType) :
                            validates(MessageType[i], json_data.keys)}
             count(i) == fields_set_count(MessageType[i], json_data.keys)
             best == CHOOSE i \in valid :
                        \A j \in valid : \/ count(j) < count(i)
                                         \/ count(j) = count(i) /\ i <= j
         IN  IF valid = {} THEN ValidationError
             ELSE message_of(MessageType[best])

\* StreamConfig registered for a new connection.
DefaultStreamConfig == [config_changes |-> FALSE, info_changes |-> FALSE,
                        traces |-> FALSE]

\* ------------------------------------------------------------------ config_manager.py

DEFAULT_CONFIG == [plateReliability |-> 80, recognitionSuccessRate |-> 75]

\* ------------------------------------------------------------------ data_store.py

max_log_size == 100

BarrierEvent(action) == [type |-> "BARRIER", action |-> action, plate |-> None]

DatabaseEvent(action, plate) == [type |-> "DATABASE", action |-> action, plate |-> plate]

SecurityEvent(action) == [type |-> "SECURITY", action |-> action, plate |-> None]

RebootEvent == [type |-> "REBOOT", action |-> None, plate |-> None]

\* _current_recognition = None
NoRecognition == [type |-> "None", action |-> None, plate |-> None]

\* recognition.anpr of the event resetEngine stores (plate "", reliability 0).
EmptyRecognition ==
    [type |-> "RECOGNITION", action |-> None, plate |-> "", reliability |-> 0,
     database |-> <<>>]

\* Faulty variant: the log is never trimmed.
add_event_log_untrimmed(log, event) == Append(log, event)

\* Faulty variant: the trim keeps the oldest entries ([:max] for [-max:]).
add_event_log_keeps_oldest(log, event) ==
    LET longer == Append(log, event)
    IN  IF Len(longer) > max_log_size
        THEN SubSeq(longer, 1, max_log_size)
        ELSE longer

\* The list _add_event_log leaves in _event_log.
add_event_log(log, event) ==
    LET longer == Append(log, event)
    IN  IF Len(longer) > max_log_size
        THEN SubSeq(longer, Len(longer) - max_log_size + 1, Len(longer))
        ELSE longer

\* One call of _add_event_log.
AddEventLog(event) ==
    /\ budget > 0
    /\ event_log' = add_event_log(event_log, event)
    /\ appended' = Append(appended, event)
    /\ budget' = budget - 1

\* Store state other than the log, by the variable an operation leaves alone.
exceptLocked == <<barrier_open, allow_set_config, lock_password, lock_password_hint,
                  rsa_hint, plates_database, current_recognition, ws_clients, stream_config, config>>

exceptClients == <<is_locked, barrier_open, allow_set_config, lock_password,
                   lock_password_hint, rsa_hint, plates_database,
                   current_recognition, config, stream_config>>

\* A step that calls no mutating DataStore or ConfigManager method.
NoStoreChange == UNCHANGED <<exceptClients, ws_clients, logVars>>

\* Faulty variant: locking an already locked device is refused.
lock_device_refuses_relock(pw, result) ==
    /\ result = (~is_locked /\ ~(lock_password # None /\ pw # lock_password))
    /\ is_locked' = IF result THEN TRUE ELSE is_locked
    /\ UNCHANGED <<exceptLocked, logVars>>

\* Faulty variant: _is_locked is assigned the outcome, so a refused attempt
\* unlocks.
lock_device_assigns_outcome(pw, result) ==
    /\ result = ~(lock_password # None /\ pw # lock_password)
    /\ is_locked' = result
    /\ UNCHANGED <<exceptLocked, logVars>>

\* DataStore.lock_device(password) returning `result`.
lock_device(pw, result) ==
    /\ result = ~(lock_password # None /\ pw # lock_password)
    /\ is_locked' = IF result THEN TRUE ELSE is_locked
    /\ UNCHANGED <<exceptLocked, logVars>>

\* Faulty variant: unlocking the device also lets the barrier down.
unlock_device_closes_barrier ==
    /\ is_locked' = FALSE
    /\ barrier_open' = FALSE
    /\ UNCHANGED <<allow_set_config, lock_password, lock_password_hint, rsa_hint,
                   plates_database, current_recognition, ws_clients, stream_config,
                   config, logVars>>

\* Faulty variant: with a lock password set, unlock leaves the device locked.
unlock_device_checks_password ==
    /\ is_locked' = IF lock_password = None THEN FALSE ELSE is_locked
    /\ UNCHANGED <<exceptLocked, logVars>>

\* DataStore.unlock_device() (always returns True).
unlock_device ==
    /\ is_locked' = FALSE
    /\ UNCHANGED <<exceptLocked, logVars>>

is_device_locked == is_locked

has_lock_password == lock_password # None

set_lock_password(pw) ==
    /\ lock_password' = pw
    /\ AddEventLog(SecurityEvent("password_change"))
    /\ UNCHANGED <<is_locked, barrier_open, allow_set_config, lock_password_hint,
                   rsa_hint, plates_database, current_recognition, ws_clients, stream_config, config>>

set_lock_password_hint(hint) ==
    /\ lock_password_hint' = hint
    /\ UNCHANGED <<is_locked, barrier_open, allow_set_config, lock_password,
                   rsa_hint, plates_database, current_recognition, ws_clients, stream_config,
                   config, logVars>>

\* Faulty variant: the RSA hint is stored like the password hint, without a
\* log entry.
set_rsa_hint_unlogged(hint) ==
    /\ rsa_hint' = hint
    /\ UNCHANGED <<is_locked, barrier_open, allow_set_config, lock_password,
                   lock_password_hint, plates_database, current_recognition,
                   ws_clients, stream_config, config, logVars>>

set_rsa_hint(hint) ==
    /\ rsa_hint' = hint
    /\ AddEventLog(SecurityEvent("rsa_change"))
    /\ UNCHANGED <<is_locked, barrier_open, allow_set_config, lock_password,
                   lock_password_hint, plates_database, current_recognition,
                   ws_clients, stream_config, config>>

open_barrier ==
    /\ barrier_open' = TRUE
    /\ AddEventLog(BarrierEvent("open"))
    /\ UNCHANGED <<is_locked, allow_set_config, securityVars, plates_database,
                   current_recognition, ws_clients, stream_config, config>>

\* DataStore.close_barrier(); no handler calls it.
close_barrier ==
    /\ barrier_open' = FALSE
    /\ AddEventLog(BarrierEvent("close"))
    /\ UNCHANGED <<is_locked, allow_set_config, securityVars, plates_database,
                   current_recognition, ws_clients, stream_config, config>>

set_allow_config(allow) ==
    /\ allow_set_config' = allow
    /\ UNCHANGED <<is_locked, barrier_open, securityVars, plates_database,
                   current_recognition, ws_clients, stream_config, config, logVars>>

\* Faulty variant: configuration changes are always allowed.
is_config_allowed_always == TRUE

is_config_allowed == allow_set_config

\* Faulty variant: the set is replaced by the new plate.
add_plate_to_database_replaces(plate) ==
    /\ plates_database' = {plate}
    /\ AddEventLog(DatabaseEvent("add", plate))
    /\ UNCHANGED <<is_locked, barrier_open, allow_set_config, securityVars,
                   current_recognition, ws_clients, stream_config, config>>

add_plate_to_database(plate) ==
    /\ plates_database' = plates_database \cup {plate}
    /\ AddEventLog(DatabaseEvent("add", plate))
    /\ UNCHANGED <<is_locked, barrier_open, allow_set_config, securityVars,
                   current_recognition, ws_clients, stream_config, config>>

\* Faulty variant: set.discard for the membership test, so an absent plate is
\* "removed" too, logged and reported as a success.
remove_plate_from_database_discards(plate, result) ==
    /\ result = TRUE
    /\ plates_database' = plates_database \ {plate}
    /\ AddEventLog(DatabaseEvent("remove", plate))
    /\ UNCHANGED <<is_locked, barrier_open, allow_set_config, securityVars,
                   current_recognition, ws_clients, stream_config, config>>

\* DataStore.remove_plate_from_database(plate) returning `result`.
remove_plate_from_database(plate, result) ==
    /\ result = (plate \in plates_database)
    /\ IF result
       THEN /\ plates_database' = plates_database \ {plate}
            /\ AddEventLog(DatabaseEvent("remove", plate))
       ELSE UNCHANGED <<plates_database, logVars>>
    /\ UNCHANGED <<is_locked, barrier_open, allow_set_config, securityVars,
                   current_recognition, ws_clients, stream_config, config>>

clear_database ==
    /\ plates_database' = {}
    /\ AddEventLog(DatabaseEvent("clear", None))
    /\ UNCHANGED <<is_locked, barrier_open, allow_set_config, securityVars,
                   current_recognition, ws_clients, stream_config, config>>

\* DataStore.set_current_recognition(recognition); `anpr` is recognition.anpr.
set_current_recognition(anpr) ==
    /\ current_recognition' = anpr
    /\ AddEventLog(anpr)
    /\ UNCHANGED <<is_locked, barrier_open, allow_set_config, securityVars,
                   plates_database, ws_clients, stream_config, config>>

\* Faulty variant: the reboot is a factory reset of the security settings too.
simulate_reboot_clears_password ==
    /\ is_locked' = FALSE
    /\ barrier_open' = FALSE
    /\ current_recognition' = NoRecognition
    /\ lock_password' = None
    /\ AddEventLog(RebootEvent)
    /\ UNCHANGED <<allow_set_config, lock_password_hint, rsa_hint, plates_database,
                   ws_clients, stream_config, config>>

\* Faulty variant: the reboot also empties the plate database.
simulate_reboot_clears_database ==
    /\ is_locked' = FALSE
    /\ barrier_open' = FALSE
    /\ current_recognition' = NoRecognition
    /\ plates_database' = {}
    /\ AddEventLog(RebootEvent)
    /\ UNCHANGED <<allow_set_config, securityVars, ws_clients, stream_config,
                   config>>

simulate_reboot ==
    /\ is_locked' = FALSE
    /\ barrier_open' = FALSE
    /\ current_recognition' = NoRecognition
    /\ AddEventLog(RebootEvent)
    /\ UNCHANGED <<allow_set_config, securityVars, plates_database, ws_clients, stream_config,
                   config>>

register_ws_client(client) ==
    /\ ws_clients' = [c \in DOMAIN ws_clients \cup {client} |->
                        IF c = client THEN DefaultStreamConfig ELSE ws_clients[c]]
    /\ UNCHANGED <<exceptClients, logVars>>

\* Faulty variant: the lock is tied to the connection and released with it.
unregister_ws_client_releases_lock(client) ==
    /\ ws_clients' = [c \in DOMAIN ws_clients \ {client} |-> ws_clients[c]]
    /\ is_locked' = FALSE
    /\ UNCHANGED <<barrier_open, allow_set_config, securityVars, plates_database,
                   current_recognition, config, stream_config, logVars>>

\* Faulty variant: the entry is left in the table.
unregister_ws_client_keeps_entry(client) ==
    /\ UNCHANGED <<ws_clients, exceptClients, logVars>>

unregister_ws_client(client) ==
    /\ ws_clients' = [c \in DOMAIN ws_clients \ {client} |-> ws_clients[c]]
    /\ UNCHANGED <<exceptClients, logVars>>

\* DataStore.update_ws_client_subscriptions(client, subscriptions)
update_ws_client_subscriptions(client, subscriptions) ==
    /\ ws_clients' = IF client \in DOMAIN ws_clients
                     THEN [ws_clients EXCEPT ![client] = subscriptions]
                     ELSE ws_clients
    /\ UNCHANGED <<exceptClients, logVars>>

\* DataStore.set_stream_config(stream_config): one store-wide attribute.
set_stream_config(sc) ==
    /\ stream_config' = sc
    /\ UNCHANGED <<is_locked, barrier_open, allow_set_config, securityVars,
                   plates_database, current_recognition, ws_clients, config, logVars>>

\* EventType member names.
EventType == {"BARRIER", "DATABASE", "RECOGNITION", "SECURITY", "REBOOT"}

\* event_type.name.lower()
lower(name) == CASE name = "BARRIER"     -> "barrier"
                 [] name = "DATABASE"    -> "database"
                 [] name = "RECOGNITION" -> "recognition"
                 [] name = "SECURITY"    -> "security"
                 [] name = "REBOOT"      -> "reboot"

\* getattr(subs, name, default) on a StreamConfig.
getattr(subs, name, default) == IF name \in DOMAIN subs THEN subs[name] ELSE default

\* DataStore.get_ws_clients_for_event(event_type)
get_ws_clients_for_event(event_type) ==
    {client \in DOMAIN ws_clients : getattr(ws_clients[client], lower(event_type), FALSE)}

\* ------------------------------------------------------------------ config_manager.py

\* ConfigManager.update_config(updates)
update_config(updates) ==
    /\ config' = [k \in DOMAIN config |->
                    IF k \in DOMAIN updates THEN updates[k] ELSE config[k]]
    /\ UNCHANGED <<is_locked, barrier_open, allow_set_config, securityVars,
                   plates_database, current_recognition, ws_clients, stream_config,
                   logVars>>

\* ConfigManager.set_value(key, value)
set_value(key, value) ==
    /\ config' = [config EXCEPT ![key] = value]
    /\ UNCHANGED <<is_locked, barrier_open, allow_set_config, securityVars,
                   plates_database, current_recognition, ws_clients, stream_config,
                   logVars>>

\* ------------------------------------------------------------------ device_logic.py

\* No message of the thread is being handled.
NoSnapshot == [taken |-> FALSE]

\* The state of the device: the store, the configuration and the trigger sessions.
Snapshot ==
    [taken |-> TRUE, is_locked |-> is_locked, barrier_open |-> barrier_open,
     allow_set_config |-> allow_set_config, lock_password |-> lock_password,
     lock_password_hint |-> lock_password_hint, rsa_hint |-> rsa_hint,
     plates_database |-> plates_database, current_recognition |-> current_recognition,
     event_log |-> event_log, config |-> config, active_triggers |-> active_triggers]

\* The thread goes on to its next DataStore call.
Continue(t, next) ==
    /\ pc' = [pc EXCEPT ![t] = next]
    /\ UNCHANGED <<msg, before, answer, error_text, recognition, trigger_id, ws_conn, serverVars, httpVars>>

\* process_message returns (Answer, 200); `ans` is the Answer's status.
Return(t, ans) ==
    /\ pc' = [pc EXCEPT ![t] = "respond"]
    /\ answer' = [answer EXCEPT ![t] = ans]
    /\ error_text' = [error_text EXCEPT ![t] = <<>>]
    /\ recognition' = [recognition EXCEPT ![t] = NoRecognition]
    /\ trigger_id' = [trigger_id EXCEPT ![t] = 0]
    /\ status_code' = IF t = "http" THEN 200 ELSE status_code
    /\ UNCHANGED <<msg, before, ws_conn, serverVars, password, request_body, locked>>

\* return self._create_error_response(error_text), 200; `text` is the parts
\* the error text is formatted from.
create_error_response(t, text) ==
    /\ pc' = [pc EXCEPT ![t] = "respond"]
    /\ answer' = [answer EXCEPT ![t] = "failed"]
    /\ error_text' = [error_text EXCEPT ![t] = text]
    /\ recognition' = [recognition EXCEPT ![t] = NoRecognition]
    /\ trigger_id' = [trigger_id EXCEPT ![t] = 0]
    /\ status_code' = IF t = "http" THEN 200 ELSE status_code
    /\ UNCHANGED <<msg, before, ws_conn, serverVars, password, request_body, locked>>

\* return TriggerAnswerData.ok_for_id(id).as_answer(), 200
ok_for_id(t, id) ==
    /\ pc' = [pc EXCEPT ![t] = "respond"]
    /\ answer' = [answer EXCEPT ![t] = "ok"]
    /\ error_text' = [error_text EXCEPT ![t] = <<>>]
    /\ recognition' = [recognition EXCEPT ![t] = NoRecognition]
    /\ trigger_id' = [trigger_id EXCEPT ![t] = id]
    /\ status_code' = IF t = "http" THEN 200 ELSE status_code
    /\ UNCHANGED <<msg, before, ws_conn, serverVars, password, request_body, locked>>

\* return TriggerAnswerData.failed_for_id(id).as_answer(), 200
failed_for_id(t, id) ==
    /\ pc' = [pc EXCEPT ![t] = "respond"]
    /\ answer' = [answer EXCEPT ![t] = "failed"]
    /\ error_text' = [error_text EXCEPT ![t] = <<>>]
    /\ recognition' = [recognition EXCEPT ![t] = NoRecognition]
    /\ trigger_id' = [trigger_id EXCEPT ![t] = id]
    /\ status_code' = IF t = "http" THEN 200 ELSE status_code
    /\ UNCHANGED <<msg, before, ws_conn, serverVars, password, request_body, locked>>

\* Faulty variant: the answer carries an empty recognition, not the one given.
LogAnswer_empty(t, anpr) ==
    /\ pc' = [pc EXCEPT ![t] = "respond"]
    /\ answer' = [answer EXCEPT ![t] = "anpr"]
    /\ error_text' = [error_text EXCEPT ![t] = <<>>]
    /\ recognition' = [recognition EXCEPT ![t] = EmptyRecognition]
    /\ trigger_id' = [trigger_id EXCEPT ![t] = 0]
    /\ status_code' = IF t = "http" THEN 200 ELSE status_code
    /\ UNCHANGED <<msg, before, ws_conn, serverVars, password, request_body, locked>>

\* return LogAnswer(anpr=recognition.anpr), 200
LogAnswer(t, anpr) ==
    /\ pc' = [pc EXCEPT ![t] = "respond"]
    /\ answer' = [answer EXCEPT ![t] = "anpr"]
    /\ error_text' = [error_text EXCEPT ![t] = <<>>]
    /\ recognition' = [recognition EXCEPT ![t] = anpr]
    /\ trigger_id' = [trigger_id EXCEPT ![t] = 0]
    /\ status_code' = IF t = "http" THEN 200 ELSE status_code
    /\ UNCHANGED <<msg, before, ws_conn, serverVars, password, request_body, locked>>

\* Faulty variant: the implicit unlock follows the response instead of being
\* in a finally clause, so an exception skips it.
Raise_skips_finally(t, err_type) ==
    /\ answer' = [answer EXCEPT ![t] = IF t = "http" THEN "raised" ELSE "error"]
    /\ error_text' = [error_text EXCEPT ![t] = IF t = "http" THEN <<>>
                                                ELSE <<err_type, ": ">>]
    /\ recognition' = [recognition EXCEPT ![t] = NoRecognition]
    /\ trigger_id' = [trigger_id EXCEPT ![t] = 0]
    /\ IF t = "http"
       THEN /\ status_code' = 0
            /\ pc' = [pc EXCEPT ![t] = "idle"]
            /\ msg' = [msg EXCEPT ![t] = NoMsg]
            /\ before' = [before EXCEPT ![t] = NoSnapshot]
            /\ password' = None
            /\ request_body' = NoBody
       ELSE /\ pc' = [pc EXCEPT ![t] = "respond"]
            /\ UNCHANGED <<msg, before, password, request_body, status_code>>
    /\ UNCHANGED <<ws_conn, serverVars, locked>>

\* The handler raises.  HTTP: nothing catches it in _handle_sync_request, the
\* finally clause runs and no response is sent.  WebSocket: the except clause
\* of the connection handler sends an error frame.
Raise(t, err_type) ==
    /\ answer' = [answer EXCEPT ![t] = IF t = "http" THEN "raised" ELSE "error"]
    /\ error_text' = [error_text EXCEPT ![t] = IF t = "http" THEN <<>>
                                                ELSE <<err_type, ": ">>]
    /\ recognition' = [recognition EXCEPT ![t] = NoRecognition]
    /\ trigger_id' = [trigger_id EXCEPT ![t] = 0]
    /\ IF t = "http"
       THEN /\ status_code' = 0
            /\ IF locked
               THEN /\ pc' = [pc EXCEPT ![t] = "finally"]
                    /\ UNCHANGED <<msg, before, password, request_body>>
               ELSE /\ pc' = [pc EXCEPT ![t] = "idle"]
                    /\ msg' = [msg EXCEPT ![t] = NoMsg]
                    /\ before' = [before EXCEPT ![t] = NoSnapshot]
                    /\ password' = None
                    /\ request_body' = NoBody
       ELSE /\ pc' = [pc EXCEPT ![t] = "respond"]
            /\ UNCHANGED <<msg, before, password, request_body, status_code>>
    /\ UNCHANGED <<ws_conn, serverVars, locked>>

\* Thread t is at the call of process_message with a message of operation op.
Dispatch(t, op) == pc[t] = "process_message" /\ msg[t].op = op

\* Handlers that touch no state: _handle_get_config, _handle_get_infos,
\* _handle_calibrate_zoom_focus, _handle_keep_alive, _handle_update, _handle_setup.
handle_stateless(t) ==
    /\ pc[t] = "process_message"
    /\ msg[t].op \in {"getConfig", "getInfos", "calibrateZoomFocus", "keepAlive",
                      "update", "setup"}
    /\ NoStoreChange
    /\ Return(t, "ok")
    /\ UNCHANGED logicVars

handle_open_barrier(t) ==
    /\ Dispatch(t, "openBarrier")
    /\ open_barrier
    /\ Return(t, "ok")
    /\ UNCHANGED logicVars

handle_lock(t) ==
    /\ Dispatch(t, "lock")
    /\ \E result \in BOOLEAN :
        /\ lock_device(msg[t].password, result)
        /\ IF result THEN Return(t, "ok")
                     ELSE create_error_response(t, <<"Failed to lock device">>)
        /\ ws_lock_held' = IF result /\ t = "ws" THEN TRUE ELSE ws_lock_held
        /\ UNCHANGED <<active_triggers, last_on, requested>>

handle_unlock(t) ==
    /\ Dispatch(t, "unlock")
    /\ unlock_device
    /\ Return(t, "ok")
    /\ ws_lock_held' = FALSE
    /\ UNCHANGED <<active_triggers, last_on, requested>>

\* self.active_triggers = {}: a dict, kept here in insertion order as a sequence
\* of its items.
NoTriggers == <<>>

\* No triggerOn has been answered since the last triggerOff.
NoSession == [id |-> 0, cameraId |-> None]

TriggerIds == 1..MaxTriggerId

\* The keys of active_triggers.
trigger_ids(triggers) == {triggers[i].id : i \in 1..Len(triggers)}

\* self.active_triggers[trigger_id] = {"cameraId": camera_id, ...} with id for
\* trigger_id: a new key
\* goes last, an existing key keeps its place and gets the new value.
set_trigger(triggers, id, camera_id) ==
    IF id \in trigger_ids(triggers)
    THEN [i \in 1..Len(triggers) |->
            IF triggers[i].id = id
            THEN [id |-> id, cameraId |-> camera_id]
            ELSE triggers[i]]
    ELSE Append(triggers, [id |-> id, cameraId |-> camera_id])

\* Positions of the sessions of camera_id.
matching(triggers, camera_id) ==
    {i \in 1..Len(triggers) : triggers[i].cameraId = camera_id}

\* Faulty variant: the session opened last is deleted, whichever was found.
del_trigger_last(triggers, i) == SubSeq(triggers, 1, Len(triggers) - 1)

\* del self.active_triggers[trigger_id] for the item at position i.
del_trigger(triggers, i) ==
    [j \in 1..(Len(triggers) - 1) |-> IF j < i THEN triggers[j] ELSE triggers[j + 1]]

\* The body of _handle_trigger_on: int() of a non-numeric @timeout raises
\* ValueError.
trigger_on(t) ==
    /\ Dispatch(t, "triggerOn")
    /\ NoStoreChange
    /\ IF msg[t].timeout = "text"
       THEN Raise(t, "ValueError") /\ UNCHANGED active_triggers
       ELSE \E id \in TriggerIds :
                /\ active_triggers' = set_trigger(active_triggers, id, msg[t].camera_id)
                /\ ok_for_id(t, id)
    /\ UNCHANGED <<ws_lock_held, requested>>

handle_trigger_on(t) ==
    /\ trigger_on(t)
    /\ UNCHANGED last_on

\* The same, and the camera and the id of a triggerOn answered ok are recorded.
handle_trigger_on_observed(t) ==
    /\ trigger_on(t)
    /\ last_on' = IF answer'[t] = "ok"
                  THEN [id |-> trigger_id'[t], cameraId |-> msg[t].camera_id]
                  ELSE last_on

\* The body of _handle_trigger_off: the first session of the camera is deleted.
trigger_off(t) ==
    /\ Dispatch(t, "triggerOff")
    /\ NoStoreChange
    /\ LET found == matching(active_triggers, msg[t].camera_id)
           first == CHOOSE i \in found : \A j \in found : i <= j
       IN  IF found # {}
           THEN /\ active_triggers' = del_trigger(active_triggers, first)
                /\ ok_for_id(t, active_triggers[first].id)
           ELSE /\ UNCHANGED active_triggers
                /\ failed_for_id(t, 0)
    /\ UNCHANGED <<ws_lock_held, requested>>

handle_trigger_off(t) ==
    /\ trigger_off(t)
    /\ UNCHANGED last_on

\* The same, and the record of the last triggerOn is dropped.
handle_trigger_off_observed(t) ==
    /\ trigger_off(t)
    /\ last_on' = NoSession

\* _handle_set_enable_streams: stores the flags in DataStore._stream_config and
\* returns None.  Over HTTP, None is the body of a 200 response.
handle_set_enable_streams(t) ==
    /\ Dispatch(t, "setEnableStreams")
    /\ set_stream_config(msg[t].flags)
    /\ Return(t, "none")
    /\ requested' = IF t = "ws" THEN [requested EXCEPT ![ws_conn] = msg[t].flags]
                               ELSE requested
    /\ UNCHANGED <<ws_lock_held, active_triggers, last_on>>

\* Faulty variant: the draw has to be below the rate.
should_recognize_plate_below(draw, success_rate) == draw < success_rate

\* should_recognize_plate(): random.randint(1, 100) <= success_rate
should_recognize_plate(draw, success_rate) == draw <= success_rate

\* DatabaseMatch(plate=plate, distance=0)
DatabaseMatch(plate) == <<[plate |-> plate, distance |-> 0]>>

\* Faulty variant: the database match is never attached.
generate_recognition_event_never_matches(plate, reliability, database_plates) ==
    [type |-> "RECOGNITION", action |-> None, plate |-> plate,
     reliability |-> reliability, database |-> <<>>]

\* Faulty variant: the database match is attached whatever the database holds.
generate_recognition_event_always_matches(plate, reliability, database_plates) ==
    [type |-> "RECOGNITION", action |-> None, plate |-> plate,
     reliability |-> reliability, database |-> DatabaseMatch(plate)]

\* The recognition generate_recognition_event builds for `plate`, with the
\* database match when get_database_plates() has the plate and None (<<>>) when
\* it has not.
generate_recognition_event(plate, reliability, database_plates) ==
    [type |-> "RECOGNITION", action |-> None, plate |-> plate,
     reliability |-> reliability,
     database |-> IF plate \in database_plates THEN DatabaseMatch(plate) ELSE <<>>]

\* _handle_get_current_log and _handle_get_log, which have the same body:
\* get_current_recognition(), then, with none cached, the draw,
\* get_database_plates() for the event and set_current_recognition().
current_log(t, op) ==
    \/ /\ Dispatch(t, op)
       /\ NoStoreChange
       /\ IF current_recognition # NoRecognition
          THEN LogAnswer(t, current_recognition)
          ELSE \E draw \in Draws :
                    IF should_recognize_plate(draw, config.recognitionSuccessRate)
                    THEN Continue(t, "generate_recognition_event")
                    ELSE create_error_response(t, <<"No current recognition">>)
       /\ UNCHANGED logicVars
    \/ /\ pc[t] = "generate_recognition_event"
       /\ msg[t].op = op
       /\ NoStoreChange
       /\ \E plate \in all_plates :
            recognition' = [recognition EXCEPT ![t] =
                generate_recognition_event(plate, config.plateReliability,
                                           plates_database)]
       /\ pc' = [pc EXCEPT ![t] = "set_current_recognition"]
       /\ UNCHANGED <<msg, answer, error_text, trigger_id, ws_conn, serverVars,
                      httpVars, logicVars>>
    \/ /\ pc[t] = "set_current_recognition"
       /\ msg[t].op = op
       /\ set_current_recognition(recognition[t])
       /\ LogAnswer(t, recognition[t])
       /\ UNCHANGED logicVars

handle_get_current_log(t) ==
    /\ current_log(t, "getCurrentLog")
    /\ UNCHANGED before

\* The same, and the device state that get_database_plates() is called in is
\* recorded.
handle_get_current_log_observed(t) ==
    /\ current_log(t, "getCurrentLog")
    /\ before' = IF pc[t] = "generate_recognition_event"
                 THEN [before EXCEPT ![t] = Snapshot]
                 ELSE before

handle_get_log(t) ==
    /\ current_log(t, "getLog")
    /\ UNCHANGED before

handle_reset_config(t) ==
    /\ Dispatch(t, "resetConfig")
    /\ update_config(DEFAULT_CONFIG)
    /\ Return(t, "ok")
    /\ UNCHANGED logicVars

\* Faulty variant: resetEngine clears the current recognition instead of
\* storing the empty event.
handle_reset_engine_clears(t) ==
    /\ Dispatch(t, "resetEngine")
    /\ set_current_recognition(NoRecognition)
    /\ Return(t, "ok")
    /\ UNCHANGED logicVars

handle_reset_engine(t) ==
    /\ Dispatch(t, "resetEngine")
    /\ set_current_recognition(EmptyRecognition)
    /\ Return(t, "ok")
    /\ UNCHANGED logicVars

\* _handle_set_config: the is_config_allowed() call, then the extraction.
handle_set_config(t) ==
    \/ /\ Dispatch(t, "setConfig")
       /\ NoStoreChange
       /\ IF ~is_config_allowed
          THEN create_error_response(t, <<"Configuration changes are not allowed">>)
          ELSE IF msg[t].shape = "empty"
               THEN create_error_response(t, <<"Invalid config data">>)
               ELSE Continue(t, "set_config_extract")
       /\ UNCHANGED logicVars
    \/ /\ pc[t] = "set_config_extract"
       /\ CASE msg[t].shape = "nonobject" -> NoStoreChange /\ Raise(t, "AttributeError")
            [] msg[t].shape = "absent"    -> NoStoreChange /\ Return(t, "ok")
            [] msg[t].shape = "text"      ->
                    /\ NoStoreChange
                    /\ create_error_response(t, <<"Invalid config format: ",
                                                  "invalid literal for int()">>)
            [] msg[t].shape = "numeric"   ->
                    /\ set_value("plateReliability", msg[t].reliability)
                    /\ Return(t, "ok")
       /\ UNCHANGED logicVars

handle_edit_database(t) ==
    /\ Dispatch(t, "editDatabase")
    /\ IF msg[t].edit = "addPlate"
       THEN /\ add_plate_to_database(msg[t].plate)
            /\ Return(t, "ok")
       ELSE \E result \in BOOLEAN :
                /\ remove_plate_from_database(msg[t].plate, result)
                /\ IF result
                   THEN Return(t, "ok")
                   ELSE create_error_response(t, <<"Plate not found: ", msg[t].plate>>)
    /\ UNCHANGED logicVars

handle_allow_set_config(t) ==
    /\ Dispatch(t, "allowSetConfig")
    /\ set_allow_config(TRUE)
    /\ Return(t, "ok")
    /\ UNCHANGED logicVars

handle_forbid_set_config(t) ==
    /\ Dispatch(t, "forbidSetConfig")
    /\ set_allow_config(FALSE)
    /\ Return(t, "ok")
    /\ UNCHANGED logicVars

\* Faulty variant: the new password is accepted without the current one.
handle_set_security_unverified(t) ==
    \/ /\ Dispatch(t, "setSecurity")
       /\ NoStoreChange
       /\ IF ~is_device_locked
          THEN create_error_response(
                   t, <<"Device must be locked to change security settings">>)
          ELSE IF msg[t].new_lock_password # None
               THEN Continue(t, "security_has_password")
               ELSE IF msg[t].rsa_hint # None
                    THEN Continue(t, "security_set_rsa_hint")
                    ELSE Return(t, "ok")
       /\ UNCHANGED logicVars
    \/ /\ pc[t] = "security_has_password"
       /\ NoStoreChange
       /\ Continue(t, "security_set_password")
       /\ UNCHANGED logicVars
    \/ /\ pc[t] = "security_set_password"
       /\ set_lock_password(msg[t].new_lock_password)
       /\ IF msg[t].lock_password_hint # None
          THEN Continue(t, "security_set_hint")
          ELSE IF msg[t].rsa_hint # None
               THEN Continue(t, "security_set_rsa_hint")
               ELSE Return(t, "ok")
       /\ UNCHANGED logicVars
    \/ /\ pc[t] = "security_set_hint"
       /\ set_lock_password_hint(msg[t].lock_password_hint)
       /\ IF msg[t].rsa_hint # None
          THEN Continue(t, "security_set_rsa_hint")
          ELSE Return(t, "ok")
       /\ UNCHANGED logicVars
    \/ /\ pc[t] = "security_set_rsa_hint"
       /\ set_rsa_hint(msg[t].rsa_hint)
       /\ Return(t, "ok")
       /\ UNCHANGED logicVars

\* _handle_set_security: is_device_locked(), has_lock_password(),
\* set_lock_password(), set_lock_password_hint(), set_rsa_hint(), one call a step.
handle_set_security(t) ==
    \/ /\ Dispatch(t, "setSecurity")
       /\ NoStoreChange
       /\ IF ~is_device_locked
          THEN create_error_response(
                   t, <<"Device must be locked to change security settings">>)
          ELSE IF msg[t].new_lock_password # None
               THEN Continue(t, "security_has_password")
               ELSE IF msg[t].rsa_hint # None
                    THEN Continue(t, "security_set_rsa_hint")
                    ELSE Return(t, "ok")
       /\ UNCHANGED logicVars
    \/ /\ pc[t] = "security_has_password"
       /\ NoStoreChange
       /\ IF has_lock_password /\ msg[t].current_lock_password = None
          THEN create_error_response(
                   t, <<"Current password required to change lock password">>)
          ELSE Continue(t, "security_set_password")
       /\ UNCHANGED logicVars
    \/ /\ pc[t] = "security_set_password"
       /\ set_lock_password(msg[t].new_lock_password)
       /\ IF msg[t].lock_password_hint # None
          THEN Continue(t, "security_set_hint")
          ELSE IF msg[t].rsa_hint # None
               THEN Continue(t, "security_set_rsa_hint")
               ELSE Return(t, "ok")
       /\ UNCHANGED logicVars
    \/ /\ pc[t] = "security_set_hint"
       /\ set_lock_password_hint(msg[t].lock_password_hint)
       /\ IF msg[t].rsa_hint # None
          THEN Continue(t, "security_set_rsa_hint")
          ELSE Return(t, "ok")
       /\ UNCHANGED logicVars
    \/ /\ pc[t] = "security_set_rsa_hint"
       /\ set_rsa_hint(msg[t].rsa_hint)
       /\ Return(t, "ok")
       /\ UNCHANGED logicVars

\* Faulty variant: the database is cleared first and the lock tested after.
handle_erase_database_clears_first(t) ==
    /\ Dispatch(t, "eraseDatabase")
    /\ clear_database
    /\ IF ~is_device_locked
       THEN create_error_response(t, <<"Device must be locked to erase database">>)
       ELSE Return(t, "ok")
    /\ UNCHANGED logicVars

\* Faulty variant: the database is erased whether the device is locked or not.
handle_erase_database_unchecked(t) ==
    \/ /\ Dispatch(t, "eraseDatabase")
       /\ NoStoreChange
       /\ Continue(t, "erase_clear_database")
       /\ UNCHANGED logicVars
    \/ /\ pc[t] = "erase_clear_database"
       /\ clear_database
       /\ Return(t, "ok")
       /\ UNCHANGED logicVars

\* _handle_erase_database: is_device_locked(), then clear_database().
handle_erase_database(t) ==
    \/ /\ Dispatch(t, "eraseDatabase")
       /\ NoStoreChange
       /\ IF ~is_device_locked
          THEN create_error_response(t, <<"Device must be locked to erase database">>)
          ELSE Continue(t, "erase_clear_database")
       /\ UNCHANGED logicVars
    \/ /\ pc[t] = "erase_clear_database"
       /\ clear_database
       /\ Return(t, "ok")
       /\ UNCHANGED logicVars

\* _handle_reboot: is_device_locked(), then simulate_reboot().
handle_reboot(t) ==
    \/ /\ Dispatch(t, "reboot")
       /\ NoStoreChange
       /\ IF ~is_device_locked
          THEN create_error_response(t, <<"Device must be locked to reboot">>)
          ELSE Continue(t, "reboot_simulate")
       /\ UNCHANGED logicVars
    \/ /\ pc[t] = "reboot_simulate"
       /\ simulate_reboot
       /\ Return(t, "ok")
       /\ ws_lock_held' = FALSE
       /\ UNCHANGED <<active_triggers, last_on, requested>>

\* DeviceLogic.process_message: the handler of the message's type.
process_message(t) ==
    \/ handle_stateless(t)
    \/ handle_get_current_log(t)
    \/ handle_get_log(t)
    \/ handle_open_barrier(t)
    \/ handle_trigger_on(t)
    \/ handle_trigger_off(t)
    \/ handle_lock(t)
    \/ handle_unlock(t)
    \/ handle_reset_config(t)
    \/ handle_reset_engine(t)
    \/ handle_set_config(t)
    \/ handle_edit_database(t)
    \/ handle_allow_set_config(t)
    \/ handle_forbid_set_config(t)
    \/ handle_set_enable_streams(t)
    \/ handle_set_security(t)
    \/ handle_erase_database(t)
    \/ handle_reboot(t)

\* ------------------------------------------------------------------ server/http_server.py

\* send_error(status, ...) followed by return.
SendError(status) ==
    /\ pc' = [pc EXCEPT !["http"] = "respond"]
    /\ status_code' = status

\* _handle_sync_request up to the call of _implicit_lock or process_message:
\* the body is parsed to `message`, the Password header is `pw`.
handle_sync_request(message, pw) ==
    /\ pc["http"] = "idle"
    /\ msg' = [msg EXCEPT !["http"] = message]
    /\ answer' = [answer EXCEPT !["http"] = "none"]
    /\ error_text' = [error_text EXCEPT !["http"] = <<>>]
    /\ recognition' = [recognition EXCEPT !["http"] = NoRecognition]
    /\ trigger_id' = [trigger_id EXCEPT !["http"] = 0]
    /\ password' = pw
    /\ locked' = FALSE
    /\ IF is_prohibited_over_http(message)
       THEN SendError(400)
       ELSE /\ pc' = [pc EXCEPT !["http"] =
                        IF requires_locking(message) THEN "implicit_lock"
                                                     ELSE "process_message"]
            /\ status_code' = 0
    /\ NoStoreChange
    /\ UNCHANGED <<ws_conn, serverVars, logicVars>>

\* An HTTP request comes in whose body parses to `message`.
HttpReceive(message, pw) ==
    /\ handle_sync_request(message, pw)
    /\ UNCHANGED <<before, request_body>>

\* An HTTP request comes in with body `body`: parse_message, and 400 when it
\* raises ValueError.
HttpReceiveBody(body, pw) ==
    /\ request_body' = body
    /\ LET message == parse_message(body)
       IN
       IF message = ValidationError
       THEN /\ pc["http"] = "idle"
            /\ SendError(400)
            /\ answer' = [answer EXCEPT !["http"] = "none"]
            /\ error_text' = [error_text EXCEPT !["http"] = <<>>]
            /\ recognition' = [recognition EXCEPT !["http"] = NoRecognition]
            /\ trigger_id' = [trigger_id EXCEPT !["http"] = 0]
            /\ password' = pw
            /\ locked' = FALSE
            /\ NoStoreChange
            /\ UNCHANGED <<msg, ws_conn, serverVars, logicVars>>
       ELSE handle_sync_request(message, pw)
    /\ UNCHANGED before

\* The same, and the device state it finds is recorded.
HttpReceiveObserved(message, pw) ==
    /\ handle_sync_request(message, pw)
    /\ before' = [before EXCEPT !["http"] = Snapshot]
    /\ UNCHANGED request_body

\* Faulty variant: _implicit_lock without the is_device_locked() test.
implicit_lock_unchecked ==
    \/ /\ pc["http"] = "implicit_lock"
       /\ NoStoreChange
       /\ Continue("http", "implicit_lock_device")
       /\ UNCHANGED logicVars
    \/ /\ pc["http"] = "implicit_lock_device"
       /\ \E result \in BOOLEAN :
            /\ lock_device(password, result)
            /\ locked' = result
            /\ IF result
               THEN /\ pc' = [pc EXCEPT !["http"] = "process_message"]
                    /\ UNCHANGED status_code
               ELSE SendError(403)
       /\ UNCHANGED <<msg, before, answer, error_text, recognition, trigger_id, ws_conn, serverVars, password, request_body, logicVars>>

\* _implicit_lock: is_device_locked(), then lock_device(password); 403 when
\* it returns False.
implicit_lock ==
    \/ /\ pc["http"] = "implicit_lock"
       /\ NoStoreChange
       /\ IF is_device_locked
          THEN SendError(403) /\ UNCHANGED <<password, request_body, locked>>
          ELSE Continue("http", "implicit_lock_device")
       /\ UNCHANGED <<msg, before, answer, error_text, recognition, trigger_id, ws_conn, serverVars, logicVars>>
    \/ /\ pc["http"] = "implicit_lock_device"
       /\ \E result \in BOOLEAN :
            /\ lock_device(password, result)
            /\ locked' = result
            /\ IF result
               THEN /\ pc' = [pc EXCEPT !["http"] = "process_message"]
                    /\ UNCHANGED status_code
               ELSE SendError(403)
       /\ UNCHANGED <<msg, before, answer, error_text, recognition, trigger_id, ws_conn, serverVars, password, request_body, logicVars>>

\* The response is written; the finally clause is next when `locked`.
HttpRespond ==
    /\ pc["http"] = "respond"
    /\ IF locked
       THEN /\ pc' = [pc EXCEPT !["http"] = "finally"]
            /\ UNCHANGED <<msg, before, password, request_body>>
       ELSE /\ pc' = [pc EXCEPT !["http"] = "idle"]
            /\ msg' = [msg EXCEPT !["http"] = NoMsg]
            /\ before' = [before EXCEPT !["http"] = NoSnapshot]
            /\ password' = None
            /\ request_body' = NoBody
    /\ NoStoreChange
    /\ UNCHANGED <<answer, error_text, recognition, trigger_id, ws_conn, serverVars, locked, status_code, logicVars>>

\* Faulty variant: the finally clause does not unlock.
implicit_unlock_absent ==
    /\ pc["http"] = "finally"
    /\ NoStoreChange
    /\ pc' = [pc EXCEPT !["http"] = "idle"]
    /\ msg' = [msg EXCEPT !["http"] = NoMsg]
    /\ before' = [before EXCEPT !["http"] = NoSnapshot]
    /\ password' = None
    /\ request_body' = NoBody
    /\ UNCHANGED <<answer, error_text, recognition, trigger_id, ws_conn, serverVars, locked, status_code, logicVars>>

\* finally: if locked: self._implicit_unlock()
implicit_unlock ==
    /\ pc["http"] = "finally"
    /\ unlock_device
    /\ pc' = [pc EXCEPT !["http"] = "idle"]
    /\ msg' = [msg EXCEPT !["http"] = NoMsg]
    /\ before' = [before EXCEPT !["http"] = NoSnapshot]
    /\ password' = None
    /\ request_body' = NoBody
    /\ UNCHANGED <<answer, error_text, recognition, trigger_id, ws_conn, serverVars, locked, status_code, logicVars>>

\* HTTP requests handled each by a worker of its own, so that a request can
\* come in while another is being handled.  SurvisionHTTPServer.start builds a
\* plain HTTPServer, which takes the next request when the last one is over.
Workers == {"w1", "w2"}

\* The worker has no request.
IdleWorker == [pc |-> "idle", op |-> "none", locked |-> FALSE, status_code |-> 0]

\* Messages the workers' clients send, none with a Password header: two that
\* require the lock and whose handler is one DataStore call, one that does not.
WorkerMessages == [op : {"allowSetConfig", "forbidSetConfig", "getConfig"}]

\* What a step of a worker leaves alone.
exceptWorkers == <<threadVars, httpVars, logicVars, clients, bc>>

\* The steps of _handle_sync_request, _implicit_lock and _implicit_unlock for
\* worker w.
worker_sync_request(w, message) ==
    /\ workers[w].pc = "idle"
    /\ workers' = [workers EXCEPT ![w] =
            [pc |-> IF requires_locking(message) THEN "implicit_lock"
                                                 ELSE "process_message",
             op |-> message.op, locked |-> FALSE, status_code |-> 0]]
    /\ NoStoreChange
    /\ UNCHANGED exceptWorkers

worker_implicit_lock(w) ==
    \/ /\ workers[w].pc = "implicit_lock"
       /\ NoStoreChange
       /\ workers' = [workers EXCEPT ![w] =
                IF is_device_locked
                THEN [@ EXCEPT !.pc = "respond", !.status_code = 403]
                ELSE [@ EXCEPT !.pc = "implicit_lock_device"]]
       /\ UNCHANGED exceptWorkers
    \/ /\ workers[w].pc = "implicit_lock_device"
       /\ \E result \in BOOLEAN :
            /\ lock_device(None, result)
            /\ workers' = [workers EXCEPT ![w] =
                    IF result
                    THEN [@ EXCEPT !.pc = "process_message", !.locked = TRUE]
                    ELSE [@ EXCEPT !.pc = "respond", !.status_code = 403]]
       /\ UNCHANGED exceptWorkers

worker_process_message(w) ==
    /\ workers[w].pc = "process_message"
    /\ CASE workers[w].op = "allowSetConfig"  -> set_allow_config(TRUE)
         [] workers[w].op = "forbidSetConfig" -> set_allow_config(FALSE)
         [] workers[w].op = "getConfig"       -> NoStoreChange
    /\ workers' = [workers EXCEPT ![w] = [@ EXCEPT !.pc = "respond", !.status_code = 200]]
    /\ UNCHANGED exceptWorkers

worker_respond(w) ==
    /\ workers[w].pc = "respond"
    /\ NoStoreChange
    /\ workers' = [workers EXCEPT ![w] =
            IF workers[w].locked THEN [@ EXCEPT !.pc = "finally"] ELSE IdleWorker]
    /\ UNCHANGED exceptWorkers

worker_implicit_unlock(w) ==
    /\ workers[w].pc = "finally"
    /\ unlock_device
    /\ workers' = [workers EXCEPT ![w] = IdleWorker]
    /\ UNCHANGED exceptWorkers

\* ------------------------------------------------------------------ server/websocket_server.py

\* handler(websocket) for a connection whose path is not /async: it is closed
\* with 1008 and nothing is registered.
WsConnectInvalidPath(client) ==
    /\ pc["ws"] = "idle"
    /\ client \notin clients
    /\ UNCHANGED vars

\* handler(websocket): a connection on /async is added to self.clients and
\* registered in the store.
WsConnect(client) ==
    /\ pc["ws"] = "idle"
    /\ client \notin clients
    /\ clients' = clients \cup {client}
    /\ register_ws_client(client)
    /\ UNCHANGED <<threadVars, httpVars, logicVars, bc, workers>>

\* handler(websocket): the connection closes, the finally clause removes it
\* from self.clients and unregisters it.
WsDisconnect(client) ==
    /\ pc["ws"] = "idle"
    /\ client \in clients
    /\ clients' = clients \ {client}
    /\ unregister_ws_client(client)
    /\ requested' = [requested EXCEPT ![client] = DefaultStreamConfig]
    /\ UNCHANGED <<threadVars, httpVars, ws_lock_held, active_triggers, last_on, bc, workers>>

\* A frame of `client` is read and parsed by process_websocket_message.
process_websocket_message(client, message) ==
    /\ pc["ws"] = "idle"
    /\ client \in clients
    /\ msg' = [msg EXCEPT !["ws"] = message]
    /\ answer' = [answer EXCEPT !["ws"] = "none"]
    /\ error_text' = [error_text EXCEPT !["ws"] = <<>>]
    /\ recognition' = [recognition EXCEPT !["ws"] = NoRecognition]
    /\ trigger_id' = [trigger_id EXCEPT !["ws"] = 0]
    /\ ws_conn' = client
    /\ pc' = [pc EXCEPT !["ws"] = "process_message"]
    /\ NoStoreChange
    /\ UNCHANGED <<httpVars, logicVars, serverVars>>

\* A WebSocket frame comes in.
WsReceive(client, message) ==
    /\ process_websocket_message(client, message)
    /\ UNCHANGED before

\* The same, and the device state it finds is recorded.
WsReceiveObserved(client, message) ==
    /\ process_websocket_message(client, message)
    /\ before' = [before EXCEPT !["ws"] = Snapshot]

\* After process_websocket_message: a StreamAnswer updates the connection's
\* subscriptions (no handler returns one), then the response, if any, or the
\* error frame of the except clause is sent.
WsRespond ==
    /\ pc["ws"] = "respond"
    /\ IF answer["ws"] = "stream"
       THEN update_ws_client_subscriptions(ws_conn, msg["ws"].flags)
       ELSE NoStoreChange
    /\ pc' = [pc EXCEPT !["ws"] = "idle"]
    /\ msg' = [msg EXCEPT !["ws"] = NoMsg]
    /\ before' = [before EXCEPT !["ws"] = NoSnapshot]
    /\ ws_conn' = None
    /\ answer' = [answer EXCEPT !["ws"] = "none"]
    /\ error_text' = [error_text EXCEPT !["ws"] = <<>>]
    /\ recognition' = [recognition EXCEPT !["ws"] = NoRecognition]
    /\ trigger_id' = [trigger_id EXCEPT !["ws"] = 0]
    /\ UNCHANGED <<httpVars, logicVars, serverVars>>

\* No broadcast() coroutine has been scheduled.
NoBroadcast == [pc |-> "idle", event_type |-> None, todo |-> <<>>,
                recipients |-> {}, delivered |-> {}, closed |-> {}, skipped |-> {}]

\* list(...) of a set or of a dict's keys: the members once each, in some order.
Orderings(S) ==
    {order \in [1..Cardinality(S) -> S] : {order[i] : i \in 1..Cardinality(S)} = S}

\* The for loop of broadcast() from the top of an iteration to its next await:
\* recipients no longer in self.clients are passed over.
RECURSIVE next_send(_, _)
next_send(todo, connected) ==
    IF todo = <<>> \/ Head(todo) \in connected
    THEN todo
    ELSE next_send(Tail(todo), connected)

\* Recipients passed over between todo and its suffix rest.
passed_over(todo, rest) ==
    {todo[i] : i \in 1..(Len(todo) - Len(rest))}

\* broadcast_message_sync(message, event_type): the coroutine is handed to the
\* server's event loop.  Nothing in the program calls it.
broadcast_message_sync(event_type) ==
    /\ bc.pc \in {"idle", "done", "raised"}
    /\ clients # {}
    /\ bc' = [NoBroadcast EXCEPT !.pc = "scheduled", !.event_type = event_type]
    /\ NoStoreChange
    /\ UNCHANGED <<threadVars, httpVars, logicVars, clients, workers>>

\* broadcast() up to its first await: the recipient list is built and the
\* first send begins.
broadcast_begin ==
    /\ bc.pc = "scheduled"
    /\ pc["ws"] \in {"idle", "respond"}
    /\ IF clients = {}
       THEN bc' = [bc EXCEPT !.pc = "done"]
       ELSE \E order \in Orderings(IF bc.event_type # None
                                   THEN get_ws_clients_for_event(bc.event_type)
                                   ELSE clients) :
                bc' = [bc EXCEPT !.pc = IF order = <<>> THEN "done" ELSE "sending",
                                 !.todo = order,
                                 !.recipients = {order[i] : i \in 1..Len(order)}]
    /\ NoStoreChange
    /\ UNCHANGED <<threadVars, httpVars, logicVars, clients, workers>>

\* await client.send(message_json) returns or raises: ConnectionClosed is
\* passed, any other exception leaves the coroutine; then the loop runs to
\* its next send.
broadcast_send(outcome) ==
    /\ bc.pc = "sending"
    /\ pc["ws"] \in {"idle", "respond"}
    /\ outcome \in {"sent", "closed", "error"}
    /\ Head(bc.todo) \notin clients => outcome = "closed"
    /\ LET client == Head(bc.todo)
       IN  IF outcome = "error"
           THEN bc' = [bc EXCEPT !.pc = "raised"]
           ELSE LET rest == next_send(Tail(bc.todo), clients)
                IN  bc' = [bc EXCEPT !.pc = IF rest = <<>> THEN "done" ELSE "sending",
                                     !.todo = rest,
                                     !.delivered = IF outcome = "sent"
                                                   THEN @ \cup {client} ELSE @,
                                     !.closed = IF outcome = "closed"
                                                THEN @ \cup {client} ELSE @,
                                     !.skipped = @ \cup passed_over(Tail(bc.todo), rest)]
    /\ NoStoreChange
    /\ UNCHANGED <<threadVars, httpVars, logicVars, clients, workers>>

\* ------------------------------------------------------------------ main.py

\* SurvisionSimulator.__init__: DataStore(), ConfigManager(), DeviceLogic().
Init ==
    /\ is_locked = FALSE
    /\ barrier_open = FALSE
    /\ allow_set_config = TRUE
    /\ lock_password = None
    /\ lock_password_hint = None
    /\ rsa_hint = None
    /\ plates_database = {}
    /\ current_recognition = NoRecognition
    /\ event_log = <<>>
    /\ ws_clients = [c \in {} |-> DefaultStreamConfig]
    /\ config = DEFAULT_CONFIG
    /\ pc = [t \in Threads |-> "idle"]
    /\ msg = [t \in Threads |-> NoMsg]
    /\ answer = [t \in Threads |-> "none"]
    /\ error_text = [t \in Threads |-> <<>>]
    /\ ws_conn = None
    /\ password = None
    /\ request_body = NoBody
    /\ workers = [w \in Workers |-> IdleWorker]
    /\ locked = FALSE
    /\ status_code = 0
    /\ appended = <<>>
    /\ budget = MaxAppends
    /\ ws_lock_held = FALSE
    /\ active_triggers = NoTriggers
    /\ stream_config = None
    /\ clients = {}
    /\ requested = [c \in Conns |-> DefaultStreamConfig]
    /\ bc = NoBroadcast
    /\ recognition = [t \in Threads |-> NoRecognition]
    /\ trigger_id = [t \in Threads |-> 0]
    /\ before = [t \in Threads |-> NoSnapshot]
    /\ last_on = NoSession

\* What an HTTP client can send and the steps of its request.  LockMessage is
\* prohibited over HTTP, so _handle_lock is never run by this thread.
HttpNext ==
    \/ \E message \in Messages, pw \in Passwords \cup {None} : HttpReceive(message, pw)
    \/ implicit_lock
    \/ handle_stateless("http")
    \/ handle_open_barrier("http")
    \/ handle_unlock("http")
    \/ handle_reset_config("http")
    \/ handle_reset_engine("http")
    \/ handle_set_config("http")
    \/ handle_edit_database("http")
    \/ handle_allow_set_config("http")
    \/ handle_forbid_set_config("http")
    \/ handle_set_security("http")
    \/ handle_erase_database("http")
    \/ handle_reboot("http")
    \/ HttpRespond
    \/ implicit_unlock

\* What a WebSocket client can send of Messages and the steps of its handling.
WsNext ==
    \/ \E client \in Conns : WsConnect(client)
    \/ \E client \in Conns : WsDisconnect(client)
    \/ \E client \in Conns, message \in Messages : WsReceive(client, message)
    \/ handle_stateless("ws")
    \/ handle_open_barrier("ws")
    \/ handle_lock("ws")
    \/ handle_unlock("ws")
    \/ handle_reset_config("ws")
    \/ handle_reset_engine("ws")
    \/ handle_set_config("ws")
    \/ handle_edit_database("ws")
    \/ handle_allow_set_config("ws")
    \/ handle_forbid_set_config("ws")
    \/ handle_set_security("ws")
    \/ handle_erase_database("ws")
    \/ handle_reboot("ws")
    \/ WsRespond

AllMessages == Messages \cup StreamMessages \cup TriggerMessages \cup LogMessages

Next ==
    \/ \E message \in AllMessages, pw \in Passwords \cup {None} :
            HttpReceive(message, pw)
    \/ implicit_lock
    \/ HttpRespond
    \/ implicit_unlock
    \/ \E client \in Conns : WsConnectInvalidPath(client)
    \/ \E client \in Conns : WsConnect(client)
    \/ \E client \in Conns : WsDisconnect(client)
    \/ \E client \in Conns, message \in AllMessages : WsReceive(client, message)
    \/ WsRespond
    \/ \E t \in Threads : process_message(t)

Spec == Init /\ [][Next]_vars

\* ------------------------------------------------------------------ HTTP clients only

SpecHttp == Init /\ [][HttpNext]_vars

\* ------------------------------------------------------------------ WebSocket clients only

SpecWs == Init /\ [][WsNext]_vars

\* ------------------------------------------------------------------ lock traffic

\* Both transports, the clients limited to the messages that take, need or
\* release the lock.
LockHttpMessages ==
    [op : {"keepAlive", "unlock", "reboot"}]
    \cup [op : {"update", "setup"}, payload : {"obj"}]
    \cup [op : {"lock"}, password : {"abc"}]
    \cup [op : {"setConfig"}, shape : {"nonobject", "numeric"}, reliability : Reliabilities]
    \cup {SecurityMsg("abc", None, "hint", "hint"), SecurityMsg("abc", None, None, None),
          SecurityMsg(None, None, None, "hint")}

LockWsMessages ==
    [op : {"unlock", "reboot"}]
    \cup [op : {"lock"}, password : Passwords]

LockNext ==
    \/ \E message \in LockHttpMessages, pw \in {"abc", None} : HttpReceive(message, pw)
    \/ implicit_lock
    \/ HttpRespond
    \/ implicit_unlock
    \/ \E client \in Conns : WsConnect(client)
    \/ \E client \in Conns : WsDisconnect(client)
    \/ \E client \in Conns, message \in LockWsMessages : WsReceive(client, message)
    \/ WsRespond
    \/ \E t \in Threads :
        \/ handle_lock(t)
        \/ handle_unlock(t)
        \/ handle_reboot(t)
        \/ handle_set_security(t)
        \/ handle_set_config(t)

SpecLock == Init /\ [][LockNext]_vars

\* ------------------------------------------------------------------ WebSocket sessions

AllStreams == [config_changes |-> TRUE, info_changes |-> TRUE, traces |-> TRUE]

\* WebSocket clients that connect, subscribe, lock, open trigger sessions,
\* change the device and disconnect.
SessionMessages ==
    [op : {"openBarrier"}]
    \cup [op : {"lock"}, password : {"abc"}]
    \cup [op : {"editDatabase"}, edit : {"addPlate"}, plate : {"AB123CD"}]
    \cup [op : {"setEnableStreams"},
          flags : {AllStreams, [AllStreams EXCEPT !.traces = FALSE]}]
    \cup TriggerMessages

SessionNext ==
    \/ \E client \in Conns : WsConnectInvalidPath(client)
    \/ \E client \in Conns : WsConnect(client)
    \/ \E client \in Conns : WsDisconnect(client)
    \/ \E client \in Conns, message \in SessionMessages : WsReceive(client, message)
    \/ handle_open_barrier("ws")
    \/ handle_lock("ws")
    \/ handle_edit_database("ws")
    \/ handle_set_enable_streams("ws")
    \/ handle_trigger_on("ws")
    \/ handle_trigger_off("ws")
    \/ WsRespond

SpecSession == Init /\ [][SessionNext]_vars

\* The same under the scheduling of the event loop and of the clients: a step
\* that can be taken is eventually taken.
SpecSessionFair == SpecSession /\ WF_vars(SessionNext)

\* ------------------------------------------------------------------ broadcast

\* broadcast_message_sync has no caller; here it is called, for any event type
\* or none, while connections come and go.
BroadcastNext ==
    \/ \E client \in Conns : WsConnect(client)
    \/ \E client \in Conns : WsDisconnect(client)
    \/ \E event_type \in EventType \cup {None} : broadcast_message_sync(event_type)
    \/ broadcast_begin
    \/ \E outcome \in {"sent", "closed", "error"} : broadcast_send(outcome)

SpecBroadcast == Init /\ [][BroadcastNext]_vars

\* ------------------------------------------------------------------ a full event log

\* The store after PrefillLen requests, openBarrier and editDatabase(addPlate)
\* in turn (the plates alternate too), each of which appended one event.
PrefillLog == [i \in 1..PrefillLen |->
                IF i % 2 = 1 THEN BarrierEvent("open")
                ELSE DatabaseEvent("add", IF i % 4 = 0 THEN "ZZ999ZZ" ELSE "AB123CD")]

InitLog ==
    /\ is_locked = FALSE
    /\ barrier_open = TRUE
    /\ allow_set_config = TRUE
    /\ lock_password = None
    /\ lock_password_hint = None
    /\ rsa_hint = None
    /\ plates_database = {"AB123CD", "ZZ999ZZ"}
    /\ current_recognition = NoRecognition
    /\ event_log = PrefillLog
    /\ ws_clients = [c \in {} |-> DefaultStreamConfig]
    /\ config = DEFAULT_CONFIG
    /\ pc = [t \in Threads |-> "idle"]
    /\ msg = [t \in Threads |-> NoMsg]
    /\ answer = [t \in Threads |-> "none"]
    /\ error_text = [t \in Threads |-> <<>>]
    /\ ws_conn = None
    /\ password = None
    /\ request_body = NoBody
    /\ workers = [w \in Workers |-> IdleWorker]
    /\ locked = FALSE
    /\ status_code = 0
    /\ appended = PrefillLog
    /\ budget = MaxLogAppends
    /\ ws_lock_held = FALSE
    /\ active_triggers = NoTriggers
    /\ stream_config = None
    /\ clients = {}
    /\ requested = [c \in Conns |-> DefaultStreamConfig]
    /\ bc = NoBroadcast
    /\ recognition = [t \in Threads |-> NoRecognition]
    /\ trigger_id = [t \in Threads |-> 0]
    /\ before = [t \in Threads |-> NoSnapshot]
    /\ last_on = NoSession

LogHttpMessages == [op : {"openBarrier", "reboot"}]

LogWsMessages ==
    [op : {"resetEngine"}]
    \cup [op : {"editDatabase"}, edit : {"addPlate", "delPlate"}, plate : {"AB123CD"}]

LogNext ==
    \/ \E message \in LogHttpMessages : HttpReceive(message, None)
    \/ implicit_lock
    \/ HttpRespond
    \/ implicit_unlock
    \/ WsConnect("c1")
    \/ \E message \in LogWsMessages : WsReceive("c1", message)
    \/ WsRespond
    \/ \E t \in Threads :
        \/ handle_open_barrier(t)
        \/ handle_reboot(t)
        \/ handle_reset_engine(t)
        \/ handle_edit_database(t)

SpecLog == InitLog /\ [][LogNext]_vars

\* ------------------------------------------------------------------ recognitions

\* The simulator started with a configuration file that holds one of
\* SuccessRates as recognitionSuccessRate.
InitRecognition ==
    /\ is_locked = FALSE
    /\ barrier_open = FALSE
    /\ allow_set_config = TRUE
    /\ lock_password = None
    /\ lock_password_hint = None
    /\ rsa_hint = None
    /\ plates_database = {}
    /\ current_recognition = NoRecognition
    /\ event_log = <<>>
    /\ ws_clients = [c \in {} |-> DefaultStreamConfig]
    /\ config \in {[DEFAULT_CONFIG EXCEPT !.recognitionSuccessRate = rate] :
                        rate \in SuccessRates}
    /\ pc = [t \in Threads |-> "idle"]
    /\ msg = [t \in Threads |-> NoMsg]
    /\ answer = [t \in Threads |-> "none"]
    /\ error_text = [t \in Threads |-> <<>>]
    /\ ws_conn = None
    /\ password = None
    /\ request_body = NoBody
    /\ workers = [w \in Workers |-> IdleWorker]
    /\ locked = FALSE
    /\ status_code = 0
    /\ appended = <<>>
    /\ budget = MaxRecognitionAppends
    /\ ws_lock_held = FALSE
    /\ active_triggers = NoTriggers
    /\ stream_config = None
    /\ clients = {}
    /\ requested = [c \in Conns |-> DefaultStreamConfig]
    /\ bc = NoBroadcast
    /\ recognition = [t \in Threads |-> NoRecognition]
    /\ trigger_id = [t \in Threads |-> 0]
    /\ before = [t \in Threads |-> NoSnapshot]
    /\ last_on = NoSession

\* HTTP clients ask for the log and reboot; a WebSocket client edits the plate
\* database and resets the engine.
RecognitionHttpMessages == LogMessages \cup [op : {"reboot"}]

RecognitionWsMessages ==
    [op : {"resetEngine"}]
    \cup [op : {"editDatabase"}, edit : {"addPlate", "delPlate"}, plate : {"XX 000 XX"}]

RecognitionNext ==
    \/ \E message \in RecognitionHttpMessages : HttpReceive(message, None)
    \/ implicit_lock
    \/ HttpRespond
    \/ implicit_unlock
    \/ WsConnect("c1")
    \/ \E message \in RecognitionWsMessages : WsReceive("c1", message)
    \/ WsRespond
    \/ handle_get_current_log("http")
    \/ handle_get_log("http")
    \/ handle_reboot("http")
    \/ handle_reset_engine("ws")
    \/ handle_edit_database("ws")

SpecRecognition == InitRecognition /\ [][RecognitionNext]_vars

\* ------------------------------------------------------------------ recognitions, observed

\* HTTP clients ask for the current log while a WebSocket client locks the
\* device, edits and erases the plate database and reboots; the state in which
\* the database is read for a recognition is recorded.
MatchHttpMessages == [op : {"getCurrentLog"}]

MatchWsMessages ==
    [op : {"eraseDatabase", "reboot"}]
    \cup [op : {"lock"}, password : {"abc"}]
    \cup [op : {"editDatabase"}, edit : {"addPlate", "delPlate"}, plate : {"XX 000 XX"}]

MatchNext ==
    \/ \E message \in MatchHttpMessages : HttpReceive(message, None)
    \/ handle_get_current_log_observed("http")
    \/ HttpRespond
    \/ WsConnect("c1")
    \/ \E message \in MatchWsMessages : WsReceive("c1", message)
    \/ handle_lock("ws")
    \/ handle_edit_database("ws")
    \/ handle_erase_database("ws")
    \/ handle_reboot("ws")
    \/ WsRespond

SpecMatch == Init /\ [][MatchNext]_vars

\* ------------------------------------------------------------------ lock password

\* Both transports, the clients limited to the messages that set, replace or
\* could clear the lock password: setSecurity without, with the stored and with
\* another currentLockPassword, and the resets.
SecurityHttpMessages ==
    [op : {"unlock", "reboot", "resetConfig"}]
    \cup {SecurityMsg("xyz", "xyz", None, None)}

SecurityWsMessages ==
    [op : {"unlock", "reboot", "eraseDatabase", "resetConfig"}]
    \cup [op : {"lock"}, password : Passwords]
    \cup {SecurityMsg("abc", None, "hint", None), SecurityMsg("xyz", "abc", None, None),
          SecurityMsg("xyz", "xyz", None, None), SecurityMsg(None, None, None, "hint")}

SecurityNext ==
    \/ \E message \in SecurityHttpMessages, pw \in Passwords : HttpReceive(message, pw)
    \/ implicit_lock
    \/ HttpRespond
    \/ implicit_unlock
    \/ WsConnect("c1")
    \/ \E message \in SecurityWsMessages : WsReceive("c1", message)
    \/ WsRespond
    \/ \E t \in Threads : handle_unlock(t)
    \/ \E t \in Threads : handle_reboot(t)
    \/ \E t \in Threads : handle_reset_config(t)
    \/ \E t \in Threads : handle_set_security(t)
    \/ handle_lock("ws")
    \/ handle_erase_database("ws")

SpecSecurity == Init /\ [][SecurityNext]_vars

\* ------------------------------------------------------------------ barrier

\* Both transports, each sending openBarrier, reboot and other messages that
\* change the device.
BarrierHttpMessages ==
    [op : {"openBarrier", "reboot", "unlock", "resetEngine", "eraseDatabase"}]

BarrierWsMessages ==
    [op : {"openBarrier", "reboot", "unlock", "resetConfig", "forbidSetConfig",
           "eraseDatabase"}]
    \cup [op : {"lock"}, password : {"abc"}]
    \cup [op : {"editDatabase"}, edit : {"addPlate"}, plate : {"AB123CD"}]

BarrierNext ==
    \/ \E message \in BarrierHttpMessages : HttpReceive(message, None)
    \/ implicit_lock
    \/ HttpRespond
    \/ implicit_unlock
    \/ WsConnect("c1")
    \/ \E message \in BarrierWsMessages : WsReceive("c1", message)
    \/ WsRespond
    \/ \E t \in Threads : handle_open_barrier(t)
    \/ \E t \in Threads : handle_unlock(t)
    \/ \E t \in Threads : handle_erase_database(t)
    \/ \E t \in Threads : handle_reboot(t)
    \/ handle_reset_engine("http")
    \/ handle_lock("ws")
    \/ handle_reset_config("ws")
    \/ handle_forbid_set_config("ws")
    \/ handle_edit_database("ws")

SpecBarrier == Init /\ [][BarrierNext]_vars

\* ------------------------------------------------------------------ configuration

\* HTTP clients send setConfig with payloads of every shape while a WebSocket
\* client allows and forbids configuration changes and resets the configuration.
ConfigHttpMessages ==
    [op : {"setConfig"}, shape : ConfigShapes, reliability : Reliabilities]

ConfigWsMessages == [op : {"allowSetConfig", "forbidSetConfig", "resetConfig"}]

ConfigNext ==
    \/ \E message \in ConfigHttpMessages : HttpReceive(message, None)
    \/ implicit_lock
    \/ handle_set_config("http")
    \/ HttpRespond
    \/ implicit_unlock
    \/ WsConnect("c1")
    \/ \E message \in ConfigWsMessages : WsReceive("c1", message)
    \/ handle_allow_set_config("ws")
    \/ handle_forbid_set_config("ws")
    \/ handle_reset_config("ws")
    \/ WsRespond

SpecConfig == Init /\ [][ConfigNext]_vars

\* ------------------------------------------------------------------ trigger sessions

\* One WebSocket client opens and closes trigger sessions on two cameras,
\* locks, unlocks, reboots, disconnects and comes back.
TriggerSessionMessages ==
    TriggerMessages
    \cup [op : {"unlock", "reboot"}]
    \cup [op : {"lock"}, password : {"abc"}]

TriggerNext ==
    \/ WsConnect("c1")
    \/ WsDisconnect("c1")
    \/ \E message \in TriggerSessionMessages : WsReceive("c1", message)
    \/ handle_trigger_on_observed("ws")
    \/ handle_trigger_off_observed("ws")
    \/ handle_lock("ws")
    \/ handle_unlock("ws")
    \/ handle_reboot("ws")
    \/ WsRespond

SpecTrigger == Init /\ [][TriggerNext]_vars

\* ------------------------------------------------------------------ request workers

WorkersNext ==
    \/ \E w \in Workers, message \in WorkerMessages : worker_sync_request(w, message)
    \/ \E w \in Workers : worker_implicit_lock(w)
    \/ \E w \in Workers : worker_process_message(w)
    \/ \E w \in Workers : worker_respond(w)
    \/ \E w \in Workers : worker_implicit_unlock(w)

SpecWorkers == Init /\ [][WorkersNext]_vars

\* ------------------------------------------------------------------ store operations

\* One WebSocket client sends the messages whose handlers call the mutating
\* DataStore methods, and close_barrier, which no handler calls, is called on
\* the store directly between two messages.
StoreMessages ==
    [op : {"openBarrier", "unlock", "resetEngine", "forbidSetConfig", "eraseDatabase",
           "reboot"}]
    \cup [op : {"lock"}, password : {"abc"}]
    \cup [op : {"editDatabase"}, edit : {"addPlate", "delPlate"}, plate : {"AB123CD"}]
    \cup [op : {"setEnableStreams"}, flags : {AllStreams}]
    \cup {SecurityMsg("abc", None, "hint", "hint")}

CloseBarrier ==
    /\ pc["ws"] = "idle"
    /\ close_barrier
    /\ UNCHANGED <<threadVars, httpVars, logicVars, serverVars>>

StoreNext ==
    \/ WsConnect("c1")
    \/ WsDisconnect("c1")
    \/ CloseBarrier
    \/ \E message \in StoreMessages : WsReceive("c1", message)
    \/ handle_open_barrier("ws")
    \/ handle_lock("ws")
    \/ handle_unlock("ws")
    \/ handle_reset_engine("ws")
    \/ handle_edit_database("ws")
    \/ handle_forbid_set_config("ws")
    \/ handle_set_enable_streams("ws")
    \/ handle_set_security("ws")
    \/ handle_erase_database("ws")
    \/ handle_reboot("ws")
    \/ WsRespond

SpecStore == Init /\ [][StoreNext]_vars

\* ------------------------------------------------------------------ request bodies

\* Top-level keys of the JSON objects the HTTP clients send: keys of members
\* with and without a default, of a prohibited and of a lock-requiring member,
\* and a key no member reads.
JsonKeys == {"getConfig", "openBarrier", "triggerOff", "lock", "reboot", "foo"}

Bodies == {JsonObject(keys) : keys \in SUBSET JsonKeys} \cup {NotAnObject}

ParseNext ==
    \/ \E body \in Bodies : HttpReceiveBody(body, None)
    \/ implicit_lock
    \/ handle_stateless("http")
    \/ handle_open_barrier("http")
    \/ handle_trigger_off("http")
    \/ handle_reboot("http")
    \/ HttpRespond
    \/ implicit_unlock

SpecParse == Init /\ [][ParseNext]_vars

\* ------------------------------------------------------------------ one client, observed

\* One WebSocket connection sends the messages whose handlers can return a
\* failed Answer and messages that change the state those handlers test; the
\* state each message finds is recorded.
ObservedWsMessages ==
    [op : {"openBarrier", "forbidSetConfig", "eraseDatabase", "reboot",
           "getCurrentLog"}]
    \cup [op : {"lock"}, password : Passwords]
    \cup [op : {"setConfig"}, shape : {"empty", "text", "numeric"},
          reliability : Reliabilities]
    \cup [op : {"editDatabase"}, edit : {"addPlate", "delPlate"}, plate : {"AB123CD"}]
    \cup {SecurityMsg("abc", None, "hint", "hint"), SecurityMsg("xyz", "abc", None, None)}
    \cup [op : {"triggerOn"}, camera_id : {"0"}, timeout : {"numeric"}]
    \cup [op : {"triggerOff"}, camera_id : {"0"}]

ObservedWsNext ==
    \/ WsConnect("c1")
    \/ WsDisconnect("c1")
    \/ \E message \in ObservedWsMessages : WsReceiveObserved("c1", message)
    \/ handle_get_current_log("ws")
    \/ handle_open_barrier("ws")
    \/ handle_trigger_on("ws")
    \/ handle_trigger_off("ws")
    \/ handle_lock("ws")
    \/ handle_set_config("ws")
    \/ handle_edit_database("ws")
    \/ handle_forbid_set_config("ws")
    \/ handle_set_security("ws")
    \/ handle_erase_database("ws")
    \/ handle_reboot("ws")
    \/ WsRespond

SpecWsObserved == Init /\ [][ObservedWsNext]_vars

\* HTTP clients only, with messages whose handlers raise among them; the state
\* each request finds is recorded.
ObservedHttpMessages ==
    [op : {"openBarrier", "reboot"}]
    \cup [op : {"setConfig"}, shape : {"nonobject", "numeric", "text"},
          reliability : Reliabilities]
    \cup [op : {"editDatabase"}, edit : {"addPlate", "delPlate"}, plate : {"AB123CD"}]
    \cup {SecurityMsg("abc", None, "hint", "hint")}
    \cup TriggerMessages

ObservedHttpNext ==
    \/ \E message \in ObservedHttpMessages, pw \in {"abc", None} :
            HttpReceiveObserved(message, pw)
    \/ implicit_lock
    \/ handle_open_barrier("http")
    \/ handle_trigger_on("http")
    \/ handle_trigger_off("http")
    \/ handle_set_config("http")
    \/ handle_edit_database("http")
    \/ handle_set_security("http")
    \/ handle_reboot("http")
    \/ HttpRespond
    \/ implicit_unlock

SpecHttpObserved == Init /\ [][ObservedHttpNext]_vars

\* ================================================================== properties

\* The thread's position changes: the step is one of thread t.
Steps(t) == pc'[t] # pc[t]

\* lock() accepts password pw in the current state.
Accepted(pw) == lock_password = None \/ pw = lock_password

\* C1: an HTTP request for which the adapter performed the implicit lock
\* (its local `locked` is true) leaves the device unlocked at the step that
\* ends it, whatever the handler did: returned ok, returned failed, or raised.
C1_ImplicitLockReleased ==
    [][(locked /\ pc["http"] # "idle" /\ pc'["http"] = "idle") => ~is_locked']_vars

\* An implicitly locked request whose handler raised has ended; the device is unlocked.
C1_Witness ==
    /\ pc["http"] = "idle"
    /\ locked
    /\ answer["http"] = "raised"
    /\ ~is_locked

\* C2: with HTTP clients only, the device is unlocked whenever no request is
\* in progress, and a requiresLocking request is answered 403 only when a lock
\* password is set and the Password header differs from it.
C2_NoLockLeak ==
    /\ pc["http"] = "idle" => ~is_locked
    /\ (pc["http"] = "respond" /\ status_code = 403) => ~Accepted(password)

\* A requiresLocking request that follows the one that set the lock password
\* passed the implicit lock with the right Password header.
C2_Witness ==
    /\ pc["http"] = "respond"
    /\ requires_locking(msg["http"])
    /\ status_code = 200
    /\ locked
    /\ lock_password # None
    /\ password = lock_password

\* C3: once a WebSocket lock message has succeeded the device is locked until
\* an unlock message or a reboot is processed.
C3_WsLockPersists == ws_lock_held => is_locked

\* C4: a requiresLocking message dispatched over WebSocket while the device is
\* not locked is answered with an error and changes no device state.
C4_WsRequiresLock ==
    [][(/\ pc["ws"] = "process_message"
        /\ requires_locking(msg["ws"])
        /\ ~is_locked
        /\ Steps("ws"))
       => (/\ pc'["ws"] = "respond"
           /\ answer'["ws"] \in {"failed", "error"}
           /\ UNCHANGED deviceVars)]_vars

\* C5: when the implicit lock finds the device locked, or lock() rejects the
\* Password header, the request is answered 403 with no device state changed,
\* and it then ends without running a handler and without unlocking.
C5_Rejected403 ==
    [][/\ (/\ Steps("http")
           /\ \/ pc["http"] = "implicit_lock" /\ is_locked
              \/ pc["http"] = "implicit_lock_device" /\ ~Accepted(password))
          => (/\ pc'["http"] = "respond"
              /\ status_code' = 403
              /\ ~locked'
              /\ answer'["http"] = "none"
              /\ UNCHANGED deviceVars)
       /\ (pc["http"] = "respond" /\ status_code = 403 /\ Steps("http"))
          => (pc'["http"] = "idle" /\ UNCHANGED deviceVars)]_vars

\* A request was refused 403 and the lock a WebSocket client holds is in place.
C5_Witness ==
    /\ pc["http"] = "respond"
    /\ status_code = 403
    /\ requires_locking(msg["http"])
    /\ is_locked
    /\ ws_lock_held

\* C6: an HTTP request carrying lock, keepAlive, update or setup is answered 400
\* at once: no implicit lock, no handler, no device state changed.
C6_ProhibitedOverHttp ==
    [][/\ (/\ pc["http"] = "idle"
           /\ Steps("http")
           /\ msg'["http"].op \in {"lock", "keepAlive", "update", "setup"})
          => (/\ pc'["http"] = "respond"
              /\ status_code' = 400
              /\ ~locked'
              /\ answer'["http"] = "none"
              /\ UNCHANGED deviceVars)
       /\ (pc["http"] = "respond" /\ status_code = 400 /\ Steps("http"))
          => (pc'["http"] = "idle" /\ UNCHANGED deviceVars)]_vars

\* A lock message sent over HTTP was refused 400 and the device is not locked.
C6_Witness ==
    /\ pc["http"] = "respond"
    /\ msg["http"].op = "lock"
    /\ status_code = 400
    /\ ~is_locked

\* C7: the event log never holds more than 100 entries.
C7_LogBounded == Len(event_log) <= 100

\* More than 100 events were appended and the log holds 100.
C7_Witness == Len(appended) > 100 /\ Len(event_log) = 100

\* C8: after n appends the log is the last min(n, 100) appended events, in
\* the order they were appended.
C8_LogIsRecentSuffix ==
    LET n == Len(appended)
        kept == IF n < 100 THEN n ELSE 100
    IN  event_log = SubSeq(appended, n - kept + 1, n)

\* Events were dropped: the oldest event in the log is not the first event
\* ever appended, and the newest, a reboot, is the last entry.
C8_Witness ==
    /\ Len(appended) > 100
    /\ event_log[1] # appended[1]
    /\ event_log[100] = RebootEvent

\* C9: a lock, by a WebSocket lock message or by the HTTP implicit lock,
\* succeeds exactly when no lock password is set or the password given equals
\* it, whether or not the device is already locked; after a success the device
\* is locked.
C9_LockSucceedsIffAccepted ==
    [][/\ (pc["ws"] = "process_message" /\ msg["ws"].op = "lock" /\ Steps("ws"))
          => (/\ answer'["ws"] = IF Accepted(msg["ws"].password) THEN "ok" ELSE "failed"
              /\ answer'["ws"] = "ok" => is_locked')
       /\ (pc["http"] = "implicit_lock_device" /\ Steps("http"))
          => (/\ locked' = Accepted(password)
              /\ locked' => is_locked')]_vars

\* A WebSocket lock with the stored password succeeded while the HTTP request
\* in progress holds its implicit lock: one of the two locked a locked device.
C9_Witness ==
    /\ pc["ws"] = "respond"
    /\ msg["ws"].op = "lock"
    /\ answer["ws"] = "ok"
    /\ lock_password # None
    /\ pc["http"] = "process_message"
    /\ locked
    /\ is_locked

\* C10: an unlock message, over either transport and from any connection,
\* is answered ok and leaves the device unlocked, with no password check.
C10_UnlockAlwaysSucceeds ==
    [][\A t \in Threads :
        (pc[t] = "process_message" /\ msg[t].op = "unlock" /\ Steps(t))
        => (/\ pc'[t] = "respond"
            /\ answer'[t] = "ok"
            /\ ~is_locked')]_vars

\* An unlock sent over HTTP with no Password header was answered 200 ok while
\* a lock password is set; the device is unlocked.
C10_Witness ==
    /\ pc["http"] = "respond"
    /\ msg["http"].op = "unlock"
    /\ password = None
    /\ status_code = 200
    /\ answer["http"] = "ok"
    /\ lock_password # None
    /\ ~is_locked

\* C11: a WebSocket disconnect leaves locked, the lock password, the open
\* trigger sessions, the plate database, the barrier and the event log as
\* they were.
C11_DisconnectFrame ==
    [][(clients' # clients /\ clients' \subseteq clients)
          => UNCHANGED <<is_locked, lock_password, active_triggers, plates_database,
                         barrier_open, event_log>>]_vars

\* The connection that took the lock, opened the barrier, added a plate and
\* opened a trigger session is gone, and all of it is still there.
C11_Witness ==
    /\ clients = {}
    /\ ws_lock_held
    /\ is_locked
    /\ active_triggers # <<>>
    /\ plates_database # {}
    /\ barrier_open

\* C12: the subscription table has an entry for exactly the connections in
\* self.clients, and the entry of a new connection has all flags false.
C12_SubscriptionTable ==
    /\ DOMAIN ws_clients = clients
    /\ [][/\ DOMAIN ws_clients' = clients'
          /\ \A client \in clients' \ clients :
                ws_clients'[client] = DefaultStreamConfig]_vars

\* The one open connection, which has asked for every stream, has the only
\* entry of the table.
C12_Witness ==
    /\ clients = {"c2"}
    /\ DOMAIN ws_clients = {"c2"}
    /\ ws_clients["c2"] = DefaultStreamConfig
    /\ requested["c2"] = AllStreams

\* C13: when the answer to a connection's setEnableStreams is done, its
\* subscription record equals the requested flags and no other record changed.
C13_SubscriptionUpdated ==
    [][(pc["ws"] = "respond" /\ msg["ws"].op = "setEnableStreams"
            /\ pc'["ws"] = "idle")
          => /\ ws_clients'[ws_conn] = msg["ws"].flags
             /\ \A client \in DOMAIN ws_clients \ {ws_conn} :
                    ws_clients'[client] = ws_clients[client]]_vars

C15_BroadcastSkipsFailures ==
    bc.pc \in {"done", "raised"}
        => \A client \in bc.recipients :
                \/ client \in bc.delivered \cup bc.closed \cup bc.skipped
                \/ bc.pc = "raised" /\ client = Head(bc.todo)

\* C16: the simulate_reboot() step of a reboot clears locked, the barrier and
\* the current recognition, appends one Reboot entry, answers ok, and leaves
\* the plate database, the configuration, configAllowed and the lock password.
C16_RebootFrame ==
    [][\A t \in Threads :
          (pc[t] = "reboot_simulate" /\ Steps(t))
          => /\ ~is_locked' /\ ~barrier_open'
             /\ current_recognition' = NoRecognition
             /\ appended' = Append(appended, RebootEvent)
             /\ event_log'[Len(event_log')] = RebootEvent
             /\ answer'[t] = "ok"
             /\ UNCHANGED <<plates_database, config, allow_set_config,
                            lock_password>>]_vars

\* A reboot of a device whose barrier was open, whose engine had been reset
\* and whose database holds two plates has been answered.
C16_Witness ==
    /\ pc["http"] = "respond"
    /\ msg["http"].op = "reboot"
    /\ answer["http"] = "ok"
    /\ ~barrier_open
    /\ \E i \in 1..Len(appended) : appended[i] = EmptyRecognition
    /\ current_recognition = NoRecognition
    /\ plates_database = {"AB123CD", "ZZ999ZZ"}

\* C17: the handler of setSecurity, eraseDatabase or reboot that finds the
\* device unlocked returns a failed Answer and leaves the lock password, the
\* hints, the plate database, the barrier, the recognition and the log.
C17_NeedsLockedState ==
    [][\A t \in Threads :
          (/\ pc[t] = "process_message"
           /\ msg[t].op \in {"setSecurity", "eraseDatabase", "reboot"}
           /\ ~is_locked
           /\ Steps(t))
          => /\ pc'[t] = "respond"
             /\ answer'[t] = "failed"
             /\ UNCHANGED <<lock_password, lock_password_hint, rsa_hint,
                            plates_database, barrier_open, current_recognition,
                            event_log>>]_vars

\* eraseDatabase on an unlocked device with a plate in the database has failed.
C17_Witness ==
    /\ pc["ws"] = "respond"
    /\ msg["ws"].op = "eraseDatabase"
    /\ answer["ws"] = "failed"
    /\ error_text["ws"] = <<"Device must be locked to erase database">>
    /\ ~is_locked
    /\ plates_database # {}

\* C18: with a lock password set, a step of the handler of a setSecurity that
\* carries newLockPassword and no currentLockPassword changes neither the
\* password, the hints nor the log, and the handler ends in a failed Answer.
C18_CurrentPasswordRequired ==
    [][\A t \in Threads :
          (/\ msg[t].op = "setSecurity"
           /\ pc[t] \in {"process_message", "security_has_password"}
           /\ msg[t].new_lock_password # None
           /\ msg[t].current_lock_password = None
           /\ lock_password # None
           /\ Steps(t))
          => /\ UNCHANGED <<lock_password, lock_password_hint, rsa_hint, event_log>>
             /\ \/ pc'[t] = "respond" /\ answer'[t] = "failed"
                \/ pc[t] = "process_message" /\ pc'[t] = "security_has_password"]_vars

\* On a locked device with password "abc", a setSecurity with a new password,
\* an rsaHint and no current password has failed on the password test.
C18_Witness ==
    /\ pc["http"] = "respond"
    /\ msg["http"] = SecurityMsg("abc", None, "hint", "hint")
    /\ answer["http"] = "failed"
    /\ error_text["http"] = <<"Current password required to change lock password">>
    /\ lock_password = "abc"
    /\ is_locked

\* C19: editDatabase(delPlate) of an absent plate fails with "Plate not found:
\* <plate>" and changes neither the plates nor the log; of a present plate it
\* removes that plate only and appends one Database(remove) entry.
C19_RemovePlate ==
    [][\A t \in Threads :
          (Dispatch(t, "editDatabase") /\ msg[t].edit = "delPlate" /\ Steps(t))
          => IF msg[t].plate \in plates_database
             THEN /\ answer'[t] = "ok"
                  /\ plates_database' = plates_database \ {msg[t].plate}
                  /\ appended' = Append(appended, DatabaseEvent("remove", msg[t].plate))
                  /\ event_log'[Len(event_log')] = DatabaseEvent("remove", msg[t].plate)
             ELSE /\ answer'[t] = "failed"
                  /\ error_text'[t] = <<"Plate not found: ", msg[t].plate>>
                  /\ UNCHANGED <<plates_database, event_log, appended>>]_vars

\* A plate was removed, the other one stayed, and removing it again failed.
C19_Witness ==
    /\ pc["ws"] = "respond"
    /\ msg["ws"].op = "editDatabase"
    /\ msg["ws"].edit = "delPlate"
    /\ answer["ws"] = "failed"
    /\ error_text["ws"] = <<"Plate not found: ", "AB123CD">>
    /\ plates_database = {"ZZ999ZZ"}
    /\ appended[Len(appended)] = DatabaseEvent("remove", "AB123CD")

\* C20: editDatabase(addPlate) answers ok, the plate set becomes the old set
\* with the plate in it, and is left as it was when the plate was in it.
C20_AddPlateIdempotent ==
    [][\A t \in Threads :
          (Dispatch(t, "editDatabase") /\ msg[t].edit = "addPlate" /\ Steps(t))
          => /\ answer'[t] = "ok"
             /\ plates_database' = plates_database \cup {msg[t].plate}
             /\ Cardinality(plates_database') =
                    Cardinality(plates_database \ {msg[t].plate}) + 1
             /\ msg[t].plate \in plates_database
                    => plates_database' = plates_database]_vars

\* The same plate was added twice in a row; the set holds it and the other.
C20_Witness ==
    /\ pc["ws"] = "respond"
    /\ msg["ws"].op = "editDatabase"
    /\ msg["ws"].edit = "addPlate"
    /\ answer["ws"] = "ok"
    /\ Len(appended) >= PrefillLen + 2
    /\ appended[Len(appended)] = DatabaseEvent("add", "AB123CD")
    /\ appended[Len(appended) - 1] = DatabaseEvent("add", "AB123CD")
    /\ plates_database = {"AB123CD", "ZZ999ZZ"}

\* C21: a setConfig handled while configAllowed is false is answered failed,
\* "Configuration changes are not allowed", and leaves the configuration; one
\* handled while it is true, with a numeric @plateReliability, goes on to store
\* that value as plateReliability and is answered ok.
C21_SetConfigGate ==
    [][\A t \in Threads :
          /\ (Dispatch(t, "setConfig") /\ ~allow_set_config /\ Steps(t))
             => /\ pc'[t] = "respond"
                /\ answer'[t] = "failed"
                /\ error_text'[t] = <<"Configuration changes are not allowed">>
                /\ UNCHANGED config
          /\ (Dispatch(t, "setConfig") /\ allow_set_config
                  /\ msg[t].shape = "numeric" /\ Steps(t))
             => /\ pc'[t] = "set_config_extract"
                /\ UNCHANGED config
          /\ (pc[t] = "set_config_extract" /\ msg[t].shape = "numeric" /\ Steps(t))
             => /\ pc'[t] = "respond"
                /\ answer'[t] = "ok"
                /\ config'.plateReliability = msg[t].reliability]_vars

\* A setConfig stored 90 while changes were allowed; after forbidSetConfig the
\* next one, numeric too, has been refused and 90 is still there.
C21_Witness ==
    /\ pc["http"] = "respond"
    /\ msg["http"].op = "setConfig"
    /\ msg["http"].shape = "numeric"
    /\ answer["http"] = "failed"
    /\ error_text["http"] = <<"Configuration changes are not allowed">>
    /\ ~allow_set_config
    /\ config.plateReliability = 90

\* C22: whatever the shape of the decoded setConfig payload, a step of the
\* handler either goes on to the extraction or returns an Answer, ok or failed;
\* no exception leaves the handler.
C22_SetConfigNeverRaises ==
    [][\A t \in Threads :
          (/\ msg[t].op = "setConfig"
           /\ pc[t] \in {"process_message", "set_config_extract"}
           /\ Steps(t))
          => \/ pc'[t] = "set_config_extract"
             \/ pc'[t] = "respond" /\ answer'[t] \in {"ok", "failed"}]_vars

\* C23: a getCurrentLog that finds no recognition cached goes on to generate
\* one when recognitionSuccessRate is 100, and when it is 0 it is answered
\* failed, "No current recognition", with nothing stored or logged, whatever
\* the draw; the steps that generate and store never answer failed.
C23_RateDecides ==
    [][\A t \in Threads :
          /\ (Dispatch(t, "getCurrentLog") /\ current_recognition = NoRecognition
                  /\ Steps(t))
             => /\ config.recognitionSuccessRate = 100
                      => pc'[t] = "generate_recognition_event"
                /\ config.recognitionSuccessRate = 0
                      => /\ pc'[t] = "respond"
                         /\ answer'[t] = "failed"
                         /\ error_text'[t] = <<"No current recognition">>
                         /\ UNCHANGED <<current_recognition, event_log, appended>>
          /\ (/\ msg[t].op = "getCurrentLog"
              /\ pc[t] \in {"generate_recognition_event", "set_current_recognition"}
              /\ Steps(t))
             => answer'[t] # "failed"]_vars

\* With the rate at 100, the first event the store ever logged is the
\* recognition a getCurrentLog generated and has answered.
C23_Witness ==
    /\ config.recognitionSuccessRate = 100
    /\ pc["http"] = "respond"
    /\ msg["http"].op = "getCurrentLog"
    /\ answer["http"] = "anpr"
    /\ appended = <<recognition["http"]>>
    /\ current_recognition = recognition["http"]

\* C24: getCurrentLog and getLog that find a current recognition answer with
\* it in one step that changes nothing of the device: the recognition stays
\* and nothing is logged.
C24_CachedRecognition ==
    [][\A t \in Threads :
          (/\ pc[t] = "process_message"
           /\ msg[t].op \in {"getCurrentLog", "getLog"}
           /\ current_recognition # NoRecognition
           /\ Steps(t))
          => /\ pc'[t] = "respond"
             /\ answer'[t] = "anpr"
             /\ recognition'[t] = current_recognition
             /\ UNCHANGED <<deviceVars, appended, active_triggers>>]_vars

\* resetEngine stored the empty recognition and nothing was logged after it; a
\* getLog that came later (the rate is 0, it generates nothing) has answered
\* with it.
C24_Witness ==
    /\ config.recognitionSuccessRate = 0
    /\ pc["http"] = "respond"
    /\ msg["http"].op = "getLog"
    /\ answer["http"] = "anpr"
    /\ recognition["http"] = EmptyRecognition
    /\ current_recognition = EmptyRecognition
    /\ appended[Len(appended)] = EmptyRecognition

\* C25: the recognition generate_recognition_event builds has a database
\* match, of its own plate at distance 0, exactly when that plate is in the
\* plate database at that step, and none otherwise.
C25_DatabaseMatch ==
    [][\A t \in Threads :
          (pc[t] = "generate_recognition_event" /\ Steps(t))
          => LET decision == recognition'[t]
             IN  /\ decision.plate \in plates_database
                      => decision.database =
                            <<[plate |-> decision.plate, distance |-> 0]>>
                 /\ decision.plate \notin plates_database
                      => decision.database = <<>>]_vars

\* A recognition of a plate of the database has been answered with its match,
\* after one of a plate the database has not, which had none.
C25_Witness ==
    /\ pc["http"] = "respond"
    /\ answer["http"] = "anpr"
    /\ recognition["http"].plate = "XX 000 XX"
    /\ recognition["http"].database = DatabaseMatch("XX 000 XX")
    /\ \E i \in 1..Len(appended) :
            /\ appended[i].type = "RECOGNITION"
            /\ appended[i].plate = "XX 000 XY"
            /\ appended[i].database = <<>>

\* C26: every triggerOn is answered ok with an id that no open session has:
\* there is one session more and every session open before is still there,
\* with its camera.
C26_TriggerOnFresh ==
    [][\A t \in Threads :
          (Dispatch(t, "triggerOn") /\ Steps(t))
          => /\ pc'[t] = "respond"
             /\ answer'[t] = "ok"
             /\ trigger_id'[t] \notin trigger_ids(active_triggers)
             /\ Len(active_triggers') = Len(active_triggers) + 1
             /\ \A i \in 1..Len(active_triggers) :
                    \E j \in 1..Len(active_triggers') :
                        active_triggers'[j] = active_triggers[i]]_vars

\* C27: a triggerOff with no open session of its camera is answered failed and
\* removes nothing; otherwise it is answered ok with the id of the first
\* session of the camera and removes that session and no other.  When the
\* triggerOn answered last was for this camera and the camera has one session,
\* the id is the one that triggerOn returned.
C27_TriggerOffFirstMatch ==
    [][\A t \in Threads :
          (Dispatch(t, "triggerOff") /\ Steps(t))
          => LET open == active_triggers
                 found == {i \in 1..Len(open) : open[i].cameraId = msg[t].camera_id}
                 first == CHOOSE i \in found : \A j \in found : i <= j
             IN  IF found = {}
                 THEN /\ answer'[t] = "failed"
                      /\ UNCHANGED active_triggers
                 ELSE /\ answer'[t] = "ok"
                      /\ trigger_id'[t] = open[first].id
                      /\ active_triggers' = SubSeq(open, 1, first - 1)
                                               \o SubSeq(open, first + 1, Len(open))
                      /\ (Cardinality(found) = 1
                              /\ last_on.cameraId = msg[t].camera_id)
                         => trigger_id'[t] = last_on.id]_vars

\* Camera "0" had two sessions; the triggerOff for it has been answered with
\* id 2 and the session with id 1 is still open.
C27_Witness ==
    /\ pc["ws"] = "respond"
    /\ msg["ws"].op = "triggerOff"
    /\ msg["ws"].camera_id = "0"
    /\ answer["ws"] = "ok"
    /\ trigger_id["ws"] = 2
    /\ active_triggers = <<[id |-> 1, cameraId |-> "0"]>>

\* C28: a session leaves the table, or gets another camera, only in the step
\* of a triggerOff for its camera.
C28_OnlyTriggerOffRemoves ==
    [][\A i \in 1..Len(active_triggers) :
          (\A j \in 1..Len(active_triggers') : active_triggers'[j] # active_triggers[i])
          => \E t \in Threads :
                /\ Dispatch(t, "triggerOff")
                /\ Steps(t)
                /\ msg[t].camera_id = active_triggers[i].cameraId]_vars

\* C29: when a handler has returned a failed Answer, the plate database, the
\* barrier, the lock password and the hints, configAllowed, the configuration,
\* the current recognition, the trigger sessions and the event log are what
\* they were when the message came in.
C29_AllOrNothing ==
    \A t \in Threads :
        (pc[t] = "respond" /\ answer[t] = "failed" /\ before[t].taken)
        => /\ plates_database = before[t].plates_database
           /\ barrier_open = before[t].barrier_open
           /\ lock_password = before[t].lock_password
           /\ lock_password_hint = before[t].lock_password_hint
           /\ rsa_hint = before[t].rsa_hint
           /\ allow_set_config = before[t].allow_set_config
           /\ config = before[t].config
           /\ current_recognition = before[t].current_recognition
           /\ active_triggers = before[t].active_triggers
           /\ event_log = before[t].event_log

\* On a locked device with a password, a plate, an open barrier and an open
\* trigger session, a setSecurity that brings a new password and hints but not
\* the current password has failed.
C29_Witness ==
    /\ pc["ws"] = "respond"
    /\ msg["ws"] = SecurityMsg("abc", None, "hint", "hint")
    /\ answer["ws"] = "failed"
    /\ before["ws"].taken
    /\ is_locked
    /\ lock_password = "xyz"
    /\ active_triggers # <<>>
    /\ event_log # <<>>

\* C30: an HTTP request whose handler raised ends with status 500 sent to the
\* client and with the device (locked and the trigger sessions included) in
\* the state the request found.
C30_Uncaught500 ==
    [][(pc["http"] # "idle" /\ pc'["http"] = "idle" /\ answer'["http"] = "raised")
          => /\ status_code' = 500
             /\ Snapshot' = before["http"]]_vars

\* C31: an HTTP request ends with status 400 only when its message is
\* prohibited over HTTP, with 403 only when it needs the lock and the implicit
\* lock failed, and a request whose message is not prohibited and that passed
\* the implicit lock step ends with status 200, whatever Answer its handler
\* produced.
C31_HttpStatus ==
    [][(pc["http"] # "idle" /\ pc'["http"] = "idle")
          => /\ status_code' = 400 => is_prohibited_over_http(msg["http"])
             /\ status_code' = 403 => requires_locking(msg["http"]) /\ ~locked
             /\ (/\ ~is_prohibited_over_http(msg["http"])
                 /\ requires_locking(msg["http"]) => locked)
                => status_code' = 200]_vars

\* C32: decoding a JSON object that has no key, or more than one key, that a
\* message variant reads fails with a validation error (over HTTP: status 400
\* and no message), so that a message is decoded only from an object with
\* exactly one such key.
C32_DecodeOneKey ==
    (pc["http"] # "idle" /\ request_body.kind = "object")
        => (Cardinality(request_body.keys \cap RecognizedKeys) # 1
                => msg["http"] = NoMsg /\ status_code = 400)

\* The step appends nothing to the log.
AppendsNone == appended' = appended

\* The step appends the one entry `event` to the log.
AppendsOne(event) == appended' = Append(appended, event)

\* C33: a step that calls a DataStore method appends, in that same step, one
\* log entry of the method's category or none: open_barrier and close_barrier
\* a Barrier entry, add_plate_to_database, remove_plate_from_database of a
\* plate that is there and clear_database a Database entry,
\* set_current_recognition a Recognition entry, simulate_reboot a Reboot
\* entry, set_lock_password and set_rsa_hint a Security entry; lock_device,
\* unlock_device, set_allow_config, set_lock_password_hint, the removal of an
\* absent plate and the registration, removal and subscription changes of
\* connections append none.  An entry is never appended without the change of
\* its category.
C33_StoreLogging ==
    [][LET at(p) == pc["ws"] = p /\ Steps("ws")
           on(op) == at("process_message") /\ msg["ws"].op = op
           last == appended'[Len(appended')]
       IN  /\ AppendsNone \/ (Len(appended') = Len(appended) + 1 /\ AppendsOne(last))
           /\ on("openBarrier") => AppendsOne(BarrierEvent("open")) /\ barrier_open'
           /\ UNCHANGED <<pc, clients>>
                => AppendsOne(BarrierEvent("close")) /\ ~barrier_open'
           /\ on("editDatabase") =>
                IF msg["ws"].edit = "addPlate"
                THEN AppendsOne(DatabaseEvent("add", msg["ws"].plate))
                ELSE IF msg["ws"].plate \in plates_database
                     THEN AppendsOne(DatabaseEvent("remove", msg["ws"].plate))
                     ELSE AppendsNone
           /\ at("erase_clear_database") => AppendsOne(DatabaseEvent("clear", None))
           /\ on("resetEngine") => /\ AppendsOne(current_recognition')
                                   /\ current_recognition'.type = "RECOGNITION"
           /\ at("reboot_simulate") => AppendsOne(RebootEvent)
           /\ at("security_set_password") => AppendsOne(SecurityEvent("password_change"))
           /\ at("security_set_rsa_hint") => AppendsOne(SecurityEvent("rsa_change"))
           /\ (\/ on("lock") \/ on("unlock") \/ on("forbidSetConfig")
               \/ on("setEnableStreams") \/ at("security_set_hint")
               \/ clients' # clients) => AppendsNone
           /\ ~AppendsNone =>
                CASE last.type = "BARRIER"     -> barrier_open' = (last.action = "open")
                  [] last.type = "DATABASE"    ->
                        /\ plates_database' # plates_database \/ last.action # "remove"
                        /\ last.action = "add" => last.plate \in plates_database'
                        /\ last.action = "remove" => last.plate \notin plates_database'
                        /\ last.action = "clear" => plates_database' = {}
                  [] last.type = "RECOGNITION" -> current_recognition' = last
                  [] last.type = "REBOOT"      -> /\ ~is_locked' /\ ~barrier_open'
                                                  /\ current_recognition' = NoRecognition
                  [] last.type = "SECURITY"    ->
                        IF last.action = "password_change"
                        THEN lock_password' = msg["ws"].new_lock_password
                        ELSE rsa_hint' = msg["ws"].rsa_hint]_vars

\* A setSecurity on a locked device has stored the password (one Security
\* entry), the password hint (no entry) and the RSA hint (a second Security
\* entry).
C33_Witness ==
    /\ appended = <<SecurityEvent("password_change"), SecurityEvent("rsa_change")>>
    /\ lock_password = "abc"
    /\ lock_password_hint = "hint"
    /\ rsa_hint = "hint"
    /\ is_locked

\* Worker w is inside its implicit-lock bracket: its implicit lock succeeded
\* and its implicit unlock has not run.
InBracket(w) ==
    workers[w].locked /\ workers[w].pc \in {"process_message", "respond", "finally"}

C35_MatchAtStore ==
    [][\A t \in Threads :
          (pc[t] = "set_current_recognition" /\ Steps(t))
          => ((current_recognition'.database # <<>>)
                <=> current_recognition'.plate \in plates_database')]_vars

\* C35 as amended: the recognition a getCurrentLog stores has a database
\* match exactly when its plate was in the plate database at the step that
\* read the database for it; it agrees with the database at the step that
\* stores it when the database is then what it was at that read.
C35_MatchAtRead ==
    [][\A t \in Threads :
          (pc[t] = "set_current_recognition" /\ Steps(t))
          => /\ before[t].taken
             /\ (current_recognition'.database # <<>>)
                    <=> current_recognition'.plate \in before[t].plates_database
             /\ plates_database' = before[t].plates_database
                    => ((current_recognition'.database # <<>>)
                            <=> current_recognition'.plate \in plates_database')]_vars

\* A recognition of "XX 000 XX" was stored and answered without a database
\* match: the plate was added between the read of the database and the store.
C35_Witness ==
    /\ pc["http"] = "respond"
    /\ answer["http"] = "anpr"
    /\ before["http"].taken
    /\ before["http"].plates_database = {}
    /\ plates_database = {"XX 000 XX"}
    /\ current_recognition.plate = "XX 000 XX"
    /\ current_recognition.database = <<>>

\* C36: a lock attempt that the store refuses (a lock password is set and the
\* one given differs), by a lock message or by the HTTP implicit lock, leaves
\* locked as it was, and the lock message is answered failed with "Failed to
\* lock device".
C36_FailedLockFrame ==
    [][/\ \A t \in Threads :
            (Dispatch(t, "lock") /\ ~Accepted(msg[t].password) /\ Steps(t))
            => /\ is_locked' = is_locked
               /\ pc'[t] = "respond"
               /\ answer'[t] = "failed"
               /\ error_text'[t] = <<"Failed to lock device">>
       /\ (pc["http"] = "implicit_lock_device" /\ ~Accepted(password) /\ Steps("http"))
            => is_locked' = is_locked]_vars

\* A lock message with the wrong password has failed on a device that a lock
\* with the right password had locked; the device is still locked.
C36_Witness ==
    /\ pc["ws"] = "respond"
    /\ msg["ws"].op = "lock"
    /\ answer["ws"] = "failed"
    /\ lock_password # None
    /\ msg["ws"].password # lock_password
    /\ ws_lock_held
    /\ is_locked

\* C37: with a lock password stored, a step of the handler of a setSecurity
\* that carries a currentLockPassword other than the stored password leaves
\* the stored password as it was.
C37_CurrentPasswordVerified ==
    [][\A t \in Threads :
          (/\ pc[t] \in {"process_message", "security_has_password",
                         "security_set_password"}
           /\ msg[t].op = "setSecurity"
           /\ lock_password # None
           /\ msg[t].current_lock_password # None
           /\ msg[t].current_lock_password # lock_password
           /\ Steps(t))
          => lock_password' = lock_password]_vars

\* C38: a lock password that is set stays set: no step takes the stored
\* password from a value to none, whether it is a step of reboot, unlock,
\* eraseDatabase, resetConfig or setSecurity, on either transport.
C38_PasswordNeverUnset ==
    [][lock_password # None => lock_password' # None]_vars

\* A password was set, the device was rebooted, and a resetConfig has been
\* handled since; the password is still there.
C38_Witness ==
    /\ event_log = <<SecurityEvent("password_change"), RebootEvent>>
    /\ pc["ws"] = "respond"
    /\ msg["ws"].op = "resetConfig"
    /\ answer["ws"] = "ok"
    /\ lock_password # None

\* A resetEngine has stored the empty event and no reboot was logged since.
ResetSinceReboot ==
    \E i \in 1..Len(appended) :
        /\ appended[i] = EmptyRecognition
        /\ \A j \in (i + 1)..Len(appended) : appended[j] # RebootEvent

\* The step of resetEngine stores the empty event (plate "", reliability 0) as
\* the current recognition and appends it, one Recognition entry, to the log.
ResetEngineStores ==
    \A t \in Threads :
        (Dispatch(t, "resetEngine") /\ Steps(t))
        => /\ current_recognition' = EmptyRecognition
           /\ current_recognition'.plate = ""
           /\ current_recognition'.reliability = 0
           /\ appended' = Append(appended, EmptyRecognition)

\* C39: resetEngine stores the empty event and appends one Recognition entry;
\* from then until a reboot every answer of getCurrentLog and getLog is that
\* empty event, never "No current recognition", whatever the success rate.
C39_EmptyUntilReboot ==
    [][/\ ResetEngineStores
       /\ \A t \in Threads :
            (/\ msg[t].op \in {"getCurrentLog", "getLog"}
             /\ ResetSinceReboot
             /\ pc[t] # "respond"
             /\ pc'[t] = "respond")
            => /\ answer'[t] = "anpr"
               /\ recognition'[t] = EmptyRecognition]_vars

\* C39, amended: resetEngine stores the empty event and appends one Recognition
\* entry; a getCurrentLog or getLog that finds the empty event current answers
\* with it and changes nothing, whatever the success rate; the empty event
\* stops being current only by a reboot or when a getCurrentLog or getLog that
\* had found no recognition stores the event it generated.
C39_EmptyWhileCurrent ==
    [][/\ ResetEngineStores
       /\ \A t \in Threads :
            (/\ msg[t].op \in {"getCurrentLog", "getLog"}
             /\ pc[t] = "process_message"
             /\ current_recognition = EmptyRecognition
             /\ Steps(t))
            => /\ pc'[t] = "respond"
               /\ answer'[t] = "anpr"
               /\ recognition'[t] = EmptyRecognition
               /\ UNCHANGED <<current_recognition, appended>>
       /\ (current_recognition = EmptyRecognition
           /\ current_recognition' # EmptyRecognition)
            => \/ /\ current_recognition' = NoRecognition
                  /\ appended' = Append(appended, RebootEvent)
               \/ \E t \in Threads :
                    /\ msg[t].op \in {"getCurrentLog", "getLog"}
                    /\ pc[t] = "set_current_recognition"
                    /\ Steps(t)
                    /\ current_recognition' = recognition[t]]_vars

\* With recognitionSuccessRate 0, a getCurrentLog that followed a resetEngine
\* has answered with the empty event, which is still current.
C39_Witness ==
    /\ config.recognitionSuccessRate = 0
    /\ pc["http"] = "respond"
    /\ msg["http"].op = "getCurrentLog"
    /\ answer["http"] = "anpr"
    /\ recognition["http"] = EmptyRecognition
    /\ current_recognition = EmptyRecognition
    /\ ResetSinceReboot

\* C40: the barrier goes from open to closed only at the simulate_reboot step
\* of a reboot message, which then answers success; the step of openBarrier
\* leaves it open; no step of any other message of either transport closes it.
C40_BarrierClosedByReboot ==
    [][/\ (barrier_open /\ ~barrier_open')
            => \E t \in Threads :
                    /\ msg[t].op = "reboot"
                    /\ pc[t] = "reboot_simulate"
                    /\ pc'[t] = "respond"
                    /\ answer'[t] = "ok"
       /\ \A t \in Threads :
            (Dispatch(t, "openBarrier") /\ Steps(t)) => barrier_open']_vars

\* The barrier was opened by one transport and a reboot has closed it; an
\* unlock was handled while it was open or after.
C40_Witness ==
    /\ ~barrier_open
    /\ appended = <<BarrierEvent("open"), RebootEvent>>
    /\ pc["ws"] = "respond"
    /\ msg["ws"].op = "unlock"
====
